---- MODULE Spec2Model ----
(***************************************************************************)
(* Chapter-navigation prediction engine of Gemini-Novel-Reader:            *)
(* identifier extraction and URL generation (url-prediction), the pattern  *)
(* store and the engine (pattern-storage.ts) and the TTL cache (cache.ts). *)
(* Strings are sequences of one-character strings.  Confidence values are  *)
(* fixed-point numbers in thousandths (0.7 is 700).  Time is in ms.        *)
(***************************************************************************)
EXTENDS Integers, Sequences, FiniteSets, TLC

(***************************************************************************)
(* Characters and strings                                                  *)
(***************************************************************************)
Digits == <<"0", "1", "2", "3", "4", "5", "6", "7", "8", "9">>

Lower == <<"a", "b", "c", "d", "e", "f", "g", "h", "i", "j", "k", "l", "m",
           "n", "o", "p", "q", "r", "s", "t", "u", "v", "w", "x", "y", "z">>

Upper == <<"A", "B", "C", "D", "E", "F", "G", "H", "I", "J", "K", "L", "M",
           "N", "O", "P", "Q", "R", "S", "T", "U", "V", "W", "X", "Y", "Z">>

Range(f) == {f[i] : i \in DOMAIN f}

IndexOf(seq, c) == CHOOSE i \in DOMAIN seq : seq[i] = c

IsDigit(c) == c \in Range(Digits)

IsLower(c) == c \in Range(Lower)

IsUpper(c) == c \in Range(Upper)

\* String.prototype.toLowerCase on one character (the /i flag of a RegExp)
ToLower(c) == IF IsUpper(c) THEN Lower[IndexOf(Upper, c)] ELSE c

\* String.fromCharCode(c.charCodeAt(0) + 1) on a letter: z is followed by
\* an opening brace and Z by an opening bracket in the character code order
CharAfter(c) ==
  IF IsLower(c) THEN (IF c = "z" THEN "{" ELSE Lower[IndexOf(Lower, c) + 1])
  ELSE IF IsUpper(c) THEN (IF c = "Z" THEN "[" ELSE Upper[IndexOf(Upper, c) + 1])
  ELSE c

\* String.fromCharCode(c.charCodeAt(0) - 1) on a letter: a is preceded by
\* a grave accent (written "%60" here, as one character) and A by an at sign
CharBefore(c) ==
  IF IsLower(c) THEN (IF c = "a" THEN "%60" ELSE Lower[IndexOf(Lower, c) - 1])
  ELSE IF IsUpper(c) THEN (IF c = "A" THEN "@" ELSE Upper[IndexOf(Upper, c) - 1])
  ELSE c

\* s.substring(i-1, j) with 1-based inclusive bounds
Sub(s, i, j) == IF j < i THEN <<>> ELSE SubSeq(s, i, j)

\* s.startsWith(t, i-1)
StartsAt(s, t, i) ==
  /\ i + Len(t) - 1 <= Len(s)
  /\ \A k \in 1..Len(t) : s[i + k - 1] = t[k]

\* s.indexOf(t) + 1, and 0 when t does not occur in s
FirstOccurrence(s, t) ==
  IF \E i \in 1..(Len(s) + 1) : StartsAt(s, t, i)
  THEN CHOOSE i \in 1..(Len(s) + 1) :
         /\ StartsAt(s, t, i)
         /\ \A j \in 1..(i - 1) : ~StartsAt(s, t, j)
  ELSE 0

\* String.prototype.replace(pattern, replacement) with a string pattern:
\* only the first occurrence is replaced
Replace(s, t, r) ==
  LET i == FirstOccurrence(s, t)
  IN IF i = 0 THEN s
     ELSE Sub(s, 1, i - 1) \o r \o Sub(s, i + Len(t), Len(s))

RECURSIVE parseInt(_)
\* parseInt(s, 10) on a string of decimal digits
parseInt(s) ==
  IF Len(s) = 0 THEN 0
  ELSE 10 * parseInt(Sub(s, 1, Len(s) - 1)) + (IndexOf(Digits, s[Len(s)]) - 1)

RECURSIVE toString(_)
\* Number.prototype.toString() of a natural number
toString(n) ==
  IF n < 10 THEN <<Digits[n + 1]>>
  ELSE toString(n \div 10) \o <<Digits[(n % 10) + 1]>>

(***************************************************************************)
(* Regular expressions, as the sequence of their items.  Match tries the   *)
(* alternatives of every item in the order of a backtracking matcher       *)
(* (greedy quantifiers first) and returns the first match found.           *)
(***************************************************************************)
InClass(c, cls, ci) ==
  CASE cls = "digit" -> IsDigit(c)
    [] cls = "sep" -> c \in {"-", "_"}
    [] cls = "letter" -> IsLower(c) \/ (ci /\ IsUpper(c))
    [] cls = "s" -> c = "s" \/ (ci /\ c = "S")
    [] cls = "h" -> c = "h" \/ (ci /\ c = "H")
    [] cls = "notslash" -> c # "/"
    [] OTHER -> FALSE

\* \w of a RegExp
IsWordChar(c) == IsDigit(c) \/ IsLower(c) \/ IsUpper(c) \/ c = "_"

\* \b of a RegExp at the gap before position i
WordBoundary(s, i) ==
  LET before == i > 1 /\ IsWordChar(s[i - 1])
      after == i <= Len(s) /\ IsWordChar(s[i])
  IN before # after

LitAt(s, t, i, ci) ==
  /\ i + Len(t) - 1 <= Len(s)
  /\ \A k \in 1..Len(t) :
       IF ci THEN ToLower(s[i + k - 1]) = ToLower(t[k]) ELSE s[i + k - 1] = t[k]

RECURSIVE RunLength(_, _, _, _)
\* the number of consecutive characters of class cls from position i
RunLength(s, i, cls, ci) ==
  IF i <= Len(s) /\ InClass(s[i], cls, ci)
  THEN 1 + RunLength(s, i + 1, cls, ci) ELSE 0

NoMatch == [ok |-> FALSE, from |-> 0, to |-> 0, groups |-> <<<<>>, <<>>>>]

RECURSIVE Match(_, _, _, _, _, _, _)
RECURSIVE MatchCount(_, _, _, _, _, _, _, _, _)
RECURSIVE MatchAlt(_, _, _, _, _, _, _, _)

\* the items k.. of re matched against s from position i; open is the start
\* of each capture group still open, groups the text captured so far
Match(re, ci, s, i, k, open, groups) ==
  IF k > Len(re) THEN [ok |-> TRUE, from |-> 0, to |-> i - 1, groups |-> groups]
  ELSE LET it == re[k]
       IN CASE it.t = "lit" ->
                 IF LitAt(s, it.s, i, ci)
                 THEN Match(re, ci, s, i + Len(it.s), k + 1, open, groups)
                 ELSE NoMatch
            [] it.t = "opt" ->
                 MatchCount(re, ci, s, i, k, open, groups,
                            IF RunLength(s, i, it.c, ci) > 0 THEN 1 ELSE 0, 0)
            [] it.t = "plus" ->
                 MatchCount(re, ci, s, i, k, open, groups,
                            RunLength(s, i, it.c, ci), 1)
            [] it.t = "star" ->
                 MatchCount(re, ci, s, i, k, open, groups,
                            RunLength(s, i, it.c, ci), 0)
            [] it.t = "alt" -> MatchAlt(re, ci, s, i, k, open, groups, 1)
            [] it.t = "open" ->
                 Match(re, ci, s, i, k + 1, [open EXCEPT ![it.g] = i], groups)
            [] it.t = "close" ->
                 Match(re, ci, s, i, k + 1, open,
                       [groups EXCEPT ![it.g] = Sub(s, open[it.g], i - 1)])
            [] it.t = "wb" ->
                 IF WordBoundary(s, i)
                 THEN Match(re, ci, s, i, k + 1, open, groups) ELSE NoMatch
            [] it.t = "end" ->
                 IF i = Len(s) + 1
                 THEN Match(re, ci, s, i, k + 1, open, groups) ELSE NoMatch

\* a greedy quantifier: n characters first, then fewer, down to least
MatchCount(re, ci, s, i, k, open, groups, n, least) ==
  IF n < least THEN NoMatch
  ELSE LET r == Match(re, ci, s, i + n, k + 1, open, groups)
       IN IF r.ok THEN r
          ELSE MatchCount(re, ci, s, i, k, open, groups, n - 1, least)

\* an alternation of literals: the alternatives in their order
MatchAlt(re, ci, s, i, k, open, groups, a) ==
  IF a > Len(re[k].alts) THEN NoMatch
  ELSE LET r == IF LitAt(s, re[k].alts[a], i, ci)
                THEN Match(re, ci, s, i + Len(re[k].alts[a]), k + 1, open, groups)
                ELSE NoMatch
       IN IF r.ok THEN r ELSE MatchAlt(re, ci, s, i, k, open, groups, a + 1)

RECURSIVE SearchFrom(_, _, _, _)
\* String.prototype.match(regex): the leftmost match
SearchFrom(re, ci, s, i) ==
  IF i > Len(s) + 1 THEN NoMatch
  ELSE LET r == Match(re, ci, s, i, 1, <<0, 0>>, <<<<>>, <<>>>>)
       IN IF r.ok THEN [r EXCEPT !.from = i] ELSE SearchFrom(re, ci, s, i + 1)

RegexMatch(re, ci, s) == SearchFrom(re, ci, s, 1)


Lit(s) == [t |-> "lit", s |-> s]

Opt(c) == [t |-> "opt", c |-> c]

Plus(c) == [t |-> "plus", c |-> c]

Star(c) == [t |-> "star", c |-> c]

Alt(alts) == [t |-> "alt", alts |-> alts]

Open(g) == [t |-> "open", g |-> g]

Close(g) == [t |-> "close", g |-> g]

WB == [t |-> "wb"]

End == [t |-> "end"]

\* keyword[-_]?([0-9]+)
KeywordNumeric(word) ==
  <<Lit(word), Opt("sep"), Open(1), Plus("digit"), Close(1)>>

\* keyword[-_]?([0-9]+[a-z]?)
KeywordAlphanumeric(word) ==
  <<Lit(word), Opt("sep"), Open(1), Plus("digit"), Opt("letter"), Close(1)>>

\* the ordered rule set of extractChapterIdentifier; ci is the /i flag.  An
\* optional group that does not take part in the match is captured as the
\* empty string, which the caller treats like undefined.
patterns == <<
  [regex |-> <<Lit(<<"c", "h", "a", "p", "t", "e", "r">>), Opt("sep"), Opt("s"), Opt("sep"),
               Open(1), Plus("digit"), Close(1)>>,
   ci |-> TRUE, name |-> "chapter-numeric", type |-> "numeric"],
  [regex |-> KeywordNumeric(<<"c", "h">>),
   ci |-> TRUE, name |-> "ch-numeric", type |-> "numeric"],
  [regex |-> <<Lit(<<"/", "c">>), Open(1), Opt("h"), Close(1), Opt("sep"),
               Open(2), Plus("digit"), Close(2), WB>>,
   ci |-> TRUE, name |-> "slash-c-numeric", type |-> "numeric"],
  [regex |-> <<Lit(<<"/">>), Open(1), Plus("digit"), Close(1), Lit(<<"/">>),
               Open(2), Star("notslash"), Close(2), End>>,
   ci |-> FALSE, name |-> "slash-numeric", type |-> "numeric"],
  [regex |-> <<Open(1), Plus("digit"), Close(1), Lit(<<".", "h", "t", "m", "l">>), End>>,
   ci |-> FALSE, name |-> "html-numeric", type |-> "numeric"],
  [regex |-> KeywordNumeric(<<"p", "a", "g", "e">>),
   ci |-> TRUE, name |-> "page-numeric", type |-> "numeric"],
  [regex |-> KeywordNumeric(<<"p", "a", "r", "t">>),
   ci |-> TRUE, name |-> "part-numeric", type |-> "numeric"],
  [regex |-> KeywordNumeric(<<"v", "o", "l">>),
   ci |-> TRUE, name |-> "volume-numeric", type |-> "numeric"],
  [regex |-> KeywordNumeric(<<"e", "p", "i", "s", "o", "d", "e">>),
   ci |-> TRUE, name |-> "episode-numeric", type |-> "numeric"],
  [regex |-> KeywordAlphanumeric(<<"c", "h", "a", "p", "t", "e", "r">>),
   ci |-> TRUE, name |-> "chapter-alphanumeric", type |-> "alphanumeric"],
  [regex |-> KeywordAlphanumeric(<<"c", "h">>),
   ci |-> TRUE, name |-> "ch-alphanumeric", type |-> "alphanumeric"],
  [regex |-> <<Lit(<<"/", "c">>), Open(1), Opt("h"), Close(1), Opt("sep"),
               Open(2), Plus("digit"), Opt("letter"), Close(2), WB>>,
   ci |-> TRUE, name |-> "slash-c-alphanumeric", type |-> "alphanumeric"],
  [regex |-> <<Open(1), Plus("digit"), Opt("letter"), Close(1),
               Lit(<<".", "h", "t", "m", "l">>), End>>,
   ci |-> FALSE, name |-> "html-alphanumeric", type |-> "alphanumeric"],
  [regex |-> <<Open(1), Alt(<<<<"p", "r", "o", "l", "o", "g", "u", "e">>, <<"e", "p", "i", "l", "o", "g", "u", "e">>, <<"b", "o", "n", "u", "s">>, <<"e", "x", "t", "r", "a">>,
                              <<"s", "p", "e", "c", "i", "a", "l">>>>), Close(1), Opt("sep"),
               Open(2), Star("digit"), Close(2)>>,
   ci |-> TRUE, name |-> "special-chapter", type |-> "alphanumeric"] >>

(***************************************************************************)
(* URLs: scheme "://" hostname pathname search, as new URL(url) splits     *)
(* them.  The URLs of the model have a lower-case hostname, no port, no    *)
(* credentials, no fragment and no character that URL parsing would        *)
(* percent-encode, so that new URL(url).href is url.                       *)
(***************************************************************************)
HostStart(url) == FirstOccurrence(url, <<":", "/", "/">>) + 3

RECURSIVE ScanTo(_, _, _)
\* the first position from i holding a character of stops, or Len(s) + 1
ScanTo(s, i, stops) ==
  IF i > Len(s) \/ s[i] \in stops THEN i ELSE ScanTo(s, i + 1, stops)

\* new URL(url): hostname, pathname and search
URLOf(url) ==
  LET h == HostStart(url)
      p == ScanTo(url, h, {"/", "?"})
      q == ScanTo(url, p, {"?"})
      path == Sub(url, p, q - 1)
      query == Sub(url, q, Len(url))
  IN [hostname |-> Sub(url, h, p - 1),
      pathname |-> IF path = <<>> THEN <<"/">> ELSE path,
      search |-> IF Len(query) <= 1 THEN <<>> ELSE query]

NullId == [identifier |-> <<>>, type |-> "null", pattern |-> "null"]

\* match.slice(1).find(group => group && group.length > 0)
FirstGroup(m) ==
  IF m.groups[1] # <<>> THEN m.groups[1] ELSE m.groups[2]

RECURSIVE extractFrom(_, _)
\* the for loop of extractChapterIdentifier from rule k on
extractFrom(path, k) ==
  IF k > Len(patterns) THEN NullId
  ELSE LET m == RegexMatch(patterns[k].regex, patterns[k].ci, path)
       IN IF m.ok /\ FirstGroup(m) # <<>>
          THEN [identifier |-> FirstGroup(m), type |-> patterns[k].type,
                pattern |-> patterns[k].name]
          ELSE extractFrom(path, k + 1)

extractChapterIdentifier(url) ==
  LET urlObj == URLOf(url)
  IN extractFrom(urlObj.pathname \o urlObj.search, 1)


(***************************************************************************)
(* PatternDetector and UrlGenerator                                        *)
(***************************************************************************)
\* null for a string (a URL, an identifier): the code tests these values for
\* truthiness, which null and the empty string share
Null == <<>>

\* null for a UrlPattern
NoPattern ==
  [domain |-> <<>>, pattern |-> <<>>, exampleUrl |-> <<>>,
   chapterIdentifier |-> "null", confidence |-> 0, lastUsed |-> 0,
   successRate |-> 0]

\* PatternDetector.learnPattern at time t (Date.now())
learnPattern(url, t) ==
  LET id == extractChapterIdentifier(url)
      urlObj == URLOf(url)
      placeholder == IF id.type = "numeric" THEN <<"{", "n", "u", "m", "b", "e", "r", "}">> ELSE <<"{", "i", "d", "}">>
      templatedPattern == Replace(urlObj.pathname, id.identifier, placeholder)
  IN IF id.identifier = Null \/ id.pattern = "null" \/ id.type = "null"
     THEN NoPattern
     ELSE [domain |-> urlObj.hostname,
           pattern |-> templatedPattern \o urlObj.search,
           exampleUrl |-> url,
           chapterIdentifier |-> id.type,
           confidence |-> 500,
           lastUsed |-> t,
           successRate |-> 500]

\* id.match(/([0-9]+)([a-z]?)/i)
AlphanumericParts(id) ==
  RegexMatch(<<Open(1), Plus("digit"), Close(1),
               Open(2), Opt("letter"), Close(2)>>, TRUE, id)

incrementAlphanumeric(id) ==
  LET match == AlphanumericParts(id)
      number == parseInt(match.groups[1])
      letter == match.groups[2]
  IN IF ~match.ok THEN id
     ELSE IF letter # <<>> THEN toString(number) \o <<CharAfter(letter[1])>>
     ELSE toString(number + 1)

decrementAlphanumeric(id) ==
  LET match == AlphanumericParts(id)
      number == parseInt(match.groups[1])
      letter == match.groups[2]
  IN IF ~match.ok THEN id
     ELSE IF letter # <<>> THEN toString(number) \o <<CharBefore(letter[1])>>
     ELSE IF number <= 1 THEN id
     ELSE toString(number - 1)

\* UrlGenerator.generateNextUrl: the pattern argument is not read
generateNextUrl(url, pattern) ==
  LET id == extractChapterIdentifier(url)
      nextIdentifier ==
        IF id.type = "numeric" THEN toString(parseInt(id.identifier) + 1)
        ELSE incrementAlphanumeric(id.identifier)
  IN IF id.identifier = Null \/ id.type = "null" THEN Null
     ELSE Replace(url, id.identifier, nextIdentifier)

\* UrlGenerator.generatePrevUrl: the pattern argument is not read
generatePrevUrl(url, pattern) ==
  LET id == extractChapterIdentifier(url)
      currentNum == parseInt(id.identifier)
      prevIdentifier ==
        IF id.type = "numeric" THEN toString(currentNum - 1)
        ELSE decrementAlphanumeric(id.identifier)
  IN IF id.identifier = Null \/ id.type = "null" THEN Null
     ELSE IF id.type = "numeric" /\ currentNum <= 1 THEN Null
     ELSE IF id.type # "numeric" /\ prevIdentifier = id.identifier THEN Null
     ELSE Replace(url, id.identifier, prevIdentifier)


(***************************************************************************)
(* cache.ts: MemoryCache and Cache.  The Map of MemoryCache holds the      *)
(* entries written by the engine (entries, at most one per key) and fill   *)
(* entries written under other keys by the scrape and translation routes,  *)
(* which all carry the timestamp fillTime.  The routes write in bursts    *)
(* (OtherWrites), so the fill entries form one block of the Map's key      *)
(* order: an entry of entries written before fillTime comes before the     *)
(* block, and one written at fillTime or later comes after it.  A key      *)
(* stands for its own SHA-256 digest.                                      *)
(***************************************************************************)
\* MemoryCache: constructor(maxSize: number = 1000)
maxSize == 1000

\* Cache.scrapeTTL: 24 hours
scrapeTTL == 24 * 60 * 60 * 1000

HOUR == 60 * 60 * 1000

DAY == 24 * HOUR

\* CachePatternStorage.CACHE_KEY
CACHE_KEY == [ns |-> "url-patterns-storage", url |-> <<>>]

\* `url-valid:${btoa(url)}`
ValidKey(url) == [ns |-> "url-valid", url |-> url]

\* `nav-links:${btoa(url)}`
NavKey(url) == [ns |-> "nav-links", url |-> url]

EmptyCache == [fill |-> 0, fillTime |-> 0, entries |-> {}]

\* this.store.get(key)
Has(c, key) == \E e \in c.entries : e.key = key

EntryOf(c, key) == CHOOSE e \in c.entries : e.key = key

\* this.store.delete(key)
Delete(c, key) == [c EXCEPT !.entries = {e \in c.entries : e.key # key}]

Expired(timestamp, ttl, t) == t > timestamp + ttl

\* MemoryCache.get that finds nothing
MemoryCacheGetMiss(c, key, t) ==
  [hit |-> FALSE, data |-> <<>>, cache |-> c]

\* MemoryCache.get at time t: the entry, and the Map afterwards (an expired
\* entry is deleted)
MemoryCacheGet(c, key, t) ==
  IF ~Has(c, key) THEN [hit |-> FALSE, data |-> <<>>, cache |-> c]
  ELSE IF Expired(EntryOf(c, key).timestamp, EntryOf(c, key).ttl, t)
  THEN [hit |-> FALSE, data |-> <<>>, cache |-> Delete(c, key)]
  ELSE [hit |-> TRUE, data |-> EntryOf(c, key).data, cache |-> c]

Size(c) == c.fill + Cardinality(c.entries)

\* the entries that precede the fill entries in the Map's key order
OlderThanFill(c) == {e \in c.entries : e.timestamp < c.fillTime}

\* this.store.delete(this.store.keys().next().value): the first key of the
\* Map is the earliest entry written before the fill entries, or else a fill
\* entry whenever there is one
DeleteOldest(c) ==
  IF OlderThanFill(c) # {}
  THEN Delete(c, (CHOOSE e \in OlderThanFill(c) :
                    \A f \in OlderThanFill(c) : e.timestamp <= f.timestamp).key)
  ELSE IF c.fill > 0 THEN [c EXCEPT !.fill = c.fill - 1] ELSE c

\* MemoryCache.set at time t
MemoryCacheSet(c, key, data, ttl, t) ==
  LET c1 == IF Size(c) >= maxSize THEN DeleteOldest(c) ELSE c
      entry == [key |-> key, data |-> data, timestamp |-> t, ttl |-> ttl]
  IN [c1 EXCEPT !.entries = {e \in c1.entries : e.key # key} \cup {entry}]

\* MemoryCache.cleanup at time t
MemoryCacheCleanup(c, t) ==
  [fill |-> IF Expired(c.fillTime, scrapeTTL, t) THEN 0 ELSE c.fill,
   fillTime |-> c.fillTime,
   entries |-> {e \in c.entries : ~Expired(e.timestamp, e.ttl, t)}]

\* Cache.getScrape
getScrape(c, key, t) == MemoryCacheGet(c, key, t)

\* Cache.setScrape: customTtl is not read, every entry gets scrapeTTL
setScrape(c, key, content, customTtl, t) ==
  MemoryCacheSet(c, key, content, scrapeTTL, t)

(***************************************************************************)
(* CachePatternStorage.  JSON.stringify and JSON.parse of the pattern list *)
(* give the list back (strings and finite numbers), so the entry holds it. *)
(***************************************************************************)
\* getPatterns: the list read, and the cache afterwards
getPatterns(c, t) ==
  LET cached == getScrape(c, CACHE_KEY, t)
  IN [patterns |-> IF cached.hit THEN cached.data ELSE <<>>,
      cache |-> cached.cache]

\* savePatterns: "Store patterns with 7 day TTL"
savePatterns(c, pats, t) ==
  setScrape(c, CACHE_KEY, pats, 7 * 24 * 60 * 60 * 1000, t)

\* patterns.findIndex(p => p.domain === domain) + 1
findIndex(pats, domain) ==
  IF \E i \in DOMAIN pats : pats[i].domain = domain
  THEN CHOOSE i \in DOMAIN pats :
         /\ pats[i].domain = domain
         /\ \A j \in 1..(i - 1) : pats[j].domain # domain
  ELSE 0

\* patterns.find(p => p.domain === domain) || null
FindPattern(pats, domain) ==
  IF findIndex(pats, domain) = 0 THEN NoPattern
  ELSE pats[findIndex(pats, domain)]

\* updatePattern between its read and its write: { ...patterns[index],
\* ...updates }, where updates is a whole UrlPattern in the engine's call;
\* written is whether savePatterns is called
updatePatternList(pats, domain, updates) ==
  LET index == findIndex(pats, domain)
  IN IF index > 0
     THEN [patterns |-> [pats EXCEPT ![index] = updates], written |-> TRUE]
     ELSE [patterns |-> pats, written |-> FALSE]

\* addPattern without the search for an existing record
addPatternListAppend(pats, pattern) ==
  Append(pats, pattern)

\* addPattern between its read and its write
addPatternList(pats, pattern) ==
  LET existingIndex == findIndex(pats, pattern.domain)
  IN IF existingIndex > 0
     THEN [pats EXCEPT ![existingIndex] =
             [pattern EXCEPT !.successRate = pats[existingIndex].successRate]]
     ELSE Append(pats, pattern)


(***************************************************************************)
(* UrlValidator and NavigationScraper                                      *)
(***************************************************************************)
\* what the HEAD request of validateUrl can end in: a 2xx status, 403, 405,
\* another status, a fetch rejected by a network error, or a fetch rejected
\* because the 5-second timer called controller.abort()
HeadOutcomes == {"2xx", "403", "405", "other", "error", "timeout"}

\* what the server does with a GET request: a 2xx status or another status
\* within 5 seconds, a 2xx status later than that, or a network error
GetOutcomes == {"2xx", "other", "late2xx", "error"}

\* what the GET request of validateUrl ends in: it is made with the signal
\* of the controller of the HEAD request and after clearTimeout(timeoutId),
\* so it is rejected at once when the HEAD request was aborted, and waits
\* for the server however long otherwise
getResponse(head, get) ==
  IF head = "timeout" THEN "error"
  ELSE IF get = "late2xx" THEN "2xx"
  ELSE get

\* validateUrl answering true when both requests are rejected
validateUrlFailOpen(head, get) ==
  IF head \notin {"error", "timeout"}
  THEN head = "2xx" \/ head = "405" \/ head = "403"
  ELSE IF getResponse(head, get) # "error" THEN getResponse(head, get) = "2xx"
  ELSE TRUE

\* validateUrl after a cache miss: the value cached and returned
validateUrl(head, get) ==
  IF head \notin {"error", "timeout"}
  THEN head = "2xx" \/ head = "405" \/ head = "403"
  ELSE IF getResponse(head, get) # "error" THEN getResponse(head, get) = "2xx"
  ELSE FALSE

\* the links scrapeNavigationLinks finds in a scraped page
NoLinks == [nextUrl |-> Null, prevUrl |-> Null]

\* scrapeNavigationLinks without its try and catch
scrapeNavigationLinksUncaught(outcome) ==
  CASE outcome.kind = "error" -> [raised |-> FALSE, cached |-> FALSE, links |-> NoLinks]
    [] outcome.kind = "content" -> [raised |-> FALSE, cached |-> TRUE, links |-> outcome.links]
    [] outcome.kind = "throw" -> [raised |-> TRUE, cached |-> FALSE, links |-> NoLinks]

\* scrapeNavigationLinks after a cache miss.  outcome.kind is "error" (the
\* scrape result carries an error or no content), "content" (links holds what
\* findNextLink and findPrevLink extract) or "throw" (an exception inside the
\* try block).  cached: whether the links are written to the cache
scrapeNavigationLinks(outcome) ==
  CASE outcome.kind = "error" -> [raised |-> FALSE, cached |-> FALSE, links |-> NoLinks]
    [] outcome.kind = "content" -> [raised |-> FALSE, cached |-> TRUE, links |-> outcome.links]
    [] outcome.kind = "throw" -> [raised |-> FALSE, cached |-> FALSE, links |-> NoLinks]

(***************************************************************************)
(* The model's inputs                                                      *)
(***************************************************************************)
\* concurrent predictNavigation calls
MaxCalls == 2

Calls == 1..MaxCalls

\* the URLs predictNavigation is called with: a chapter with a next and a
\* previous chapter, a first chapter, a chapter of another site with an
\* alphanumeric identifier, and a page without identifier
ChapterUrl == <<"h", "t", "t", "p", ":", "/", "/", "a", ".", "i", "o", "/", "c", "h", "-", "2">>

FirstUrl == <<"h", "t", "t", "p", ":", "/", "/", "a", ".", "i", "o", "/", "c", "h", "-", "1">>

OtherUrl == <<"h", "t", "t", "p", ":", "/", "/", "b", ".", "i", "o", "/", "2", "b", ".", "h", "t", "m", "l">>

TocUrl == <<"h", "t", "t", "p", ":", "/", "/", "a", ".", "i", "o", "/", "t", "o", "c">>

\* a chapter named in the query string
QueryUrl == <<"h", "t", "t", "p", ":", "/", "/", "a", ".", "i", "o", "/", "r", "?", "c", "h", "2">>

Urls == {ChapterUrl, FirstUrl, OtherUrl, TocUrl, QueryUrl}

\* the link pairs a scraped page can hold
ScrapedLinks == {NoLinks, [nextUrl |-> <<"h", "t", "t", "p", ":", "/", "/", "a", ".", "i", "o", "/", "c", "h", "-", "3">>, prevUrl |-> Null]}

ScrapeOutcomes ==
  {[kind |-> "error", links |-> NoLinks], [kind |-> "throw", links |-> NoLinks]}
    \cup {[kind |-> "content", links |-> l] : l \in ScrapedLinks}

\* the string functions of the engine applied to every input URL
StringFunctions ==
  [extract |-> [u \in Urls |-> extractChapterIdentifier(u)],
   learn |-> [u \in Urls |-> learnPattern(u, 0)],
   next |-> [u \in Urls |-> generateNextUrl(u, NoPattern)],
   prev |-> [u \in Urls |-> generatePrevUrl(u, NoPattern)],
   host |-> [u \in Urls |-> URLOf(u).hostname]]

(***************************************************************************)
(* ChapterNavigationEngine.predictNavigation, one action per stretch of    *)
(* code between two awaits that touch shared state.  An await of the cache *)
(* resumes from the microtask queue, where the continuations of several    *)
(* calls can alternate; the completion of a fetch, a timer and the arrival *)
(* of other requests' results are tasks of the event loop, which run only  *)
(* once the microtask queue is empty (Quiet).                              *)
(***************************************************************************)
\* memo holds StringFunctions: the functions are pure, so their values are
\* computed once, in Init, and looked up afterwards
\* arg and ret are the argument and the return value of an exported
\* function of the url-prediction module called by itself
\* rateLimiters, retry, requestQueue and navigator are the state of the
\* modules beside the engine: the two RateLimiter stores, the running
\* retryWithBackoff call, the RequestQueue singleton and navigator.onLine;
\* log is the history of what these modules did
VARIABLES now, cache, calls, memo, arg, ret,
          rateLimiters, retry, requestQueue, navigator, log

vars ==
  <<now, cache, calls, memo, arg, ret,
    rateLimiters, retry, requestQueue, navigator, log>>

lib == <<rateLimiters, retry, requestQueue, navigator, log>>

engine == <<cache, calls, memo>>

\* the keys of the RateLimiter stores in use: `${ip}:${endpoint}` and
\* `${ip}:${endpoint}:daily`
Clients == {"10.0.0.1"}

\* store.get(key) of a key the store does not hold
NoEntry == [count |-> 0, resetTime |-> -1]

\* new MemoryStore() of each limiter
EmptyStore == [ip \in Clients |-> NoEntry]

\* the retryWithBackoff call that has not been made; opts, attempt, delay
\* and lastError are its locals (lastError 0: undefined)
NoRetry ==
  [pc |-> "idle", opts |-> <<>>, attempt |-> 0, delay |-> 0, lastError |-> 0]

\* new RequestQueue(): queue and processing are its fields, loops the
\* frames of processQueue() that have not returned, promises the state of
\* the promise of each enqueue call so far
EmptyQueue ==
  [queue |-> <<>>, processing |-> FALSE, loops |-> <<>>, promises |-> <<>>]

InitLib ==
  /\ rateLimiters = [perMinute |-> EmptyStore, perDay |-> EmptyStore]
  /\ retry = NoRetry
  /\ requestQueue = EmptyQueue
  /\ navigator = [onLine |-> TRUE]
  /\ log = <<>>

NoReturn == [fn |-> "none", value |-> Null]

ExtractTable == memo.extract

LearnTable == memo.learn

NextTable == memo.next

PrevTable == memo.prev

HostTable == memo.host

\* call c has a continuation in the microtask queue
Runnable(c) ==
  \/ calls[c].pc \in {"save", "scrape"}
  \/ /\ calls[c].pc = "validate"
     /\ \/ "start" \in {calls[c].nextState, calls[c].prevState}
        \/ calls[c].nextState = "done" /\ calls[c].prevState = "done"

Quiet == \A c \in DOMAIN calls : ~Runnable(c)

NoResult ==
  [nextUrl |-> Null, previousUrl |-> Null, pattern |-> NoPattern,
   confidence |-> 0, method |-> "none", sourceUrl |-> Null, validated |-> FALSE]

Idle ==
  [pc |-> "idle", tier |-> 0, url |-> Null, domainPattern |-> NoPattern,
   learnedPattern |-> NoPattern, nextUrl |-> Null, prevUrl |-> Null,
   nextState |-> "none", prevState |-> "none", nextValid |-> FALSE,
   prevValid |-> FALSE, toSave |-> <<>>, scraped |-> NoLinks,
   outcome |-> "none", probes |-> 0, result |-> NoResult]

Init ==
  /\ now = 0
  /\ cache = EmptyCache
  /\ calls = [c \in Calls |-> Idle]
  /\ memo = StringFunctions
  /\ arg = Null
  /\ ret = NoReturn
  /\ InitLib

Min(a, b) == IF a < b THEN a ELSE b

\* the state of a validateUrls leg: no validateUrl call for a null URL
LegState(url) == IF url = Null THEN "done" ELSE "start"

LegCount(url) == IF url = Null THEN 0 ELSE 1

\* the call record once the candidates of a tier are generated and
\* validateUrls is called
Validating(call, tier, nextUrl, prevUrl) ==
  [call EXCEPT !.pc = "validate", !.tier = tier,
               !.nextUrl = nextUrl, !.prevUrl = prevUrl,
               !.nextState = LegState(nextUrl), !.prevState = LegState(prevUrl),
               !.nextValid = FALSE, !.prevValid = FALSE,
               !.probes = call.probes + LegCount(nextUrl) + LegCount(prevUrl)]

\* the test of line 110 with >= in place of >
UsesStoredPatternAtThreshold(id, domainPattern) ==
  /\ id.identifier # Null /\ id.type # "null" /\ id.pattern # "null"
  /\ domainPattern # NoPattern
  /\ domainPattern.confidence >= 600

\* the tier predictNavigation takes with the pattern read from the store
UsesStoredPattern(id, domainPattern) ==
  /\ id.identifier # Null /\ id.type # "null" /\ id.pattern # "null"
  /\ domainPattern # NoPattern
  /\ domainPattern.confidence > 600

\* lines 140-146: learnPattern and the candidates of the learned pattern
Learning(call, url, t) ==
  LET learnedPattern == IF LearnTable[url] = NoPattern THEN NoPattern
                        ELSE [LearnTable[url] EXCEPT !.lastUsed = t]
  IN IF learnedPattern # NoPattern
     THEN Validating([call EXCEPT !.learnedPattern = learnedPattern], 2,
                     NextTable[url], PrevTable[url])
     ELSE [call EXCEPT !.pc = "scrape", !.tier = 3]

\* lines 102-115 and 140-146: from the call to the first validateUrls, or to
\* the scraper when no pattern is learned
Begin(c, url) ==
  /\ calls[c].pc = "idle"
  /\ LET id == ExtractTable[url]
         hasId == id.identifier # Null /\ id.type # "null" /\ id.pattern # "null"
         read == getPatterns(cache, now)
         domainPattern ==
           IF hasId THEN FindPattern(read.patterns, HostTable[url])
           ELSE NoPattern
         call == [Idle EXCEPT !.url = url, !.domainPattern = domainPattern]
     IN /\ cache' = IF hasId THEN read.cache ELSE cache
        /\ calls' = [calls EXCEPT ![c] =
             IF UsesStoredPattern(id, domainPattern)
             THEN Validating(call, 1, NextTable[url], PrevTable[url])
             ELSE Learning(call, url, now)]
  /\ UNCHANGED <<now, memo, arg, ret, lib>>


\* validateUrl, lines 540-546: the cache lookup of one leg of validateUrls
ValidateLookup(c, side) ==
  /\ calls[c].pc = "validate"
  /\ LET call == calls[c]
         url == IF side = "next" THEN call.nextUrl ELSE call.prevUrl
         cached == getScrape(cache, ValidKey(url), now)
         valid == cached.hit /\ cached.data = "valid"
         state == IF cached.hit THEN "done" ELSE "fetch"
     IN /\ (IF side = "next" THEN call.nextState ELSE call.prevState) = "start"
        /\ cache' = cached.cache
        /\ calls' = [calls EXCEPT ![c] =
             IF side = "next"
             THEN [call EXCEPT !.nextState = state, !.nextValid = valid]
             ELSE [call EXCEPT !.prevState = state, !.prevValid = valid]]
  /\ UNCHANGED <<now, memo, arg, ret, lib>>

\* validateUrl, lines 548-584: the HEAD request, the GET request after a
\* rejected HEAD, and the cache write of one leg
ValidateFetch(c, side, head, get) ==
  /\ Quiet
  /\ calls[c].pc = "validate"
  /\ LET call == calls[c]
         url == IF side = "next" THEN call.nextUrl ELSE call.prevUrl
         isValid == validateUrl(head, get)
     IN /\ (IF side = "next" THEN call.nextState ELSE call.prevState) = "fetch"
        /\ cache' = setScrape(cache, ValidKey(url),
                              IF isValid THEN "valid" ELSE "invalid",
                              60 * 60 * 1000, now)
        /\ calls' = [calls EXCEPT ![c] =
             IF side = "next"
             THEN [call EXCEPT !.nextState = "done", !.nextValid = isValid]
             ELSE [call EXCEPT !.prevState = "done", !.prevValid = isValid]]
  /\ UNCHANGED <<now, memo, arg, ret, lib>>

\* the result with the generated candidates, validated or not
PatternResultUnchecked(call, pattern, confidence) ==
  [nextUrl |-> call.nextUrl,
   previousUrl |-> call.prevUrl,
   pattern |-> pattern,
   confidence |-> confidence,
   method |-> "pattern",
   sourceUrl |-> call.url,
   validated |-> TRUE]

\* lines 128-136 and 154-162
PatternResult(call, pattern, confidence) ==
  [nextUrl |-> IF call.nextValid THEN call.nextUrl ELSE Null,
   previousUrl |-> IF call.prevValid THEN call.prevUrl ELSE Null,
   pattern |-> pattern,
   confidence |-> confidence,
   method |-> "pattern",
   sourceUrl |-> call.url,
   validated |-> TRUE]

\* the scraping result marked as not validated
ScrapingResultUnvalidated(call, scrapedLinks) ==
  [nextUrl |-> scrapedLinks.nextUrl,
   previousUrl |-> scrapedLinks.prevUrl,
   pattern |-> NoPattern,
   confidence |-> 300,
   method |-> "scraping",
   sourceUrl |-> call.url,
   validated |-> FALSE]

\* lines 169-177
ScrapingResult(call, scrapedLinks) ==
  [nextUrl |-> scrapedLinks.nextUrl,
   previousUrl |-> scrapedLinks.prevUrl,
   pattern |-> NoPattern,
   confidence |-> 300,
   method |-> "scraping",
   sourceUrl |-> call.url,
   validated |-> TRUE]

\* lines 119-124 without Math.min
updatedPatternUncapped(domainPattern, t) ==
  [domainPattern EXCEPT !.successRate = domainPattern.successRate + 50,
                        !.lastUsed = t,
                        !.confidence = domainPattern.successRate + 50]

\* lines 119-124 at time t
updatedPattern(domainPattern, t) ==
  [domainPattern EXCEPT !.successRate = Min(950, domainPattern.successRate + 50),
                        !.lastUsed = t,
                        !.confidence = Min(950, domainPattern.successRate + 50)]

\* lines 150-151
Promoted(learnedPattern) ==
  [learnedPattern EXCEPT !.confidence = 700, !.successRate = 700]

\* the result of a call that used a pattern
ResultOf(call) ==
  IF call.tier = 1
  THEN PatternResult(call, call.domainPattern, call.domainPattern.confidence)
  ELSE PatternResult(call, call.learnedPattern, call.learnedPattern.confidence)

\* tier 1 adjusting the record that is in the store at the time of the
\* write instead of the one it read when the call began
JoinStoredRereads(call, c0, t) ==
  LET read == getPatterns(c0, t)
      current == FindPattern(read.patterns, call.domainPattern.domain)
      upd == updatePatternList(read.patterns, call.domainPattern.domain,
                               updatedPattern(current, t))
  IN IF call.nextValid \/ call.prevValid
     THEN [cache |-> read.cache,
           call |-> IF current # NoPattern /\ upd.written
                    THEN [call EXCEPT !.pc = "save", !.toSave = upd.patterns]
                    ELSE [call EXCEPT !.pc = "done", !.result = ResultOf(call)]]
     ELSE [cache |-> c0,
           call |-> [call EXCEPT !.pc = "done", !.result = ResultOf(call)]]

\* tier 1 lowering the stored confidence when neither candidate validated
JoinStoredDecays(call, c0, t) ==
  LET read == getPatterns(c0, t)
      lowered == [call.domainPattern EXCEPT
                    !.confidence = (7 * call.domainPattern.confidence) \div 10]
      upd == updatePatternList(read.patterns, call.domainPattern.domain,
                               IF call.nextValid \/ call.prevValid
                               THEN updatedPattern(call.domainPattern, t)
                               ELSE lowered)
  IN [cache |-> read.cache,
      call |-> IF upd.written
               THEN [call EXCEPT !.pc = "save", !.toSave = upd.patterns]
               ELSE [call EXCEPT !.pc = "done", !.result = ResultOf(call)]]

\* tier 1 going on to the scraper when neither candidate validated
JoinStoredFallsThrough(call, c0, t) ==
  LET read == getPatterns(c0, t)
      upd == updatePatternList(read.patterns, call.domainPattern.domain,
                               updatedPattern(call.domainPattern, t))
  IN IF call.nextValid \/ call.prevValid
     THEN [cache |-> read.cache,
           call |-> IF upd.written
                    THEN [call EXCEPT !.pc = "save", !.toSave = upd.patterns]
                    ELSE [call EXCEPT !.pc = "done", !.result = ResultOf(call)]]
     ELSE [cache |-> c0, call |-> [call EXCEPT !.pc = "scrape", !.tier = 3]]

\* lines 117-137 after validateUrls resolved: tier 1, up to the read of
\* updatePattern
JoinStored(call, c0, t) ==
  LET read == getPatterns(c0, t)
      upd == updatePatternList(read.patterns, call.domainPattern.domain,
                               updatedPattern(call.domainPattern, t))
  IN IF call.nextValid \/ call.prevValid
     THEN [cache |-> read.cache,
           call |-> IF upd.written
                    THEN [call EXCEPT !.pc = "save", !.toSave = upd.patterns]
                    ELSE [call EXCEPT !.pc = "done", !.result = ResultOf(call)]]
     ELSE [cache |-> c0,
           call |-> [call EXCEPT !.pc = "done", !.result = ResultOf(call)]]

\* tier 2 storing the learned pattern whatever validateUrls answered
JoinLearnedUnvalidated(call, c0, t) ==
  LET read == getPatterns(c0, t)
      learnedPattern == Promoted(call.learnedPattern)
  IN [cache |-> read.cache,
      call |-> [call EXCEPT !.pc = "save",
                            !.learnedPattern = learnedPattern,
                            !.toSave = addPatternList(read.patterns,
                                                      learnedPattern)]]

\* lines 148-164 after validateUrls resolved: tier 2, up to the read of
\* addPattern, or on to the scraper
JoinLearned(call, c0, t) ==
  LET read == getPatterns(c0, t)
      learnedPattern == Promoted(call.learnedPattern)
  IN IF call.nextValid \/ call.prevValid
     THEN [cache |-> read.cache,
           call |-> [call EXCEPT !.pc = "save",
                                 !.learnedPattern = learnedPattern,
                                 !.toSave = addPatternList(read.patterns,
                                                           learnedPattern)]]
     ELSE [cache |-> c0, call |-> [call EXCEPT !.pc = "scrape", !.tier = 3]]

\* a combinator that settles with the first promise that does
PromiseRace(call) == call.nextState = "done" \/ call.prevState = "done"

\* Promise.all of the two validateUrl promises, neither of which rejects,
\* is fulfilled
PromiseAll(call) == call.nextState = "done" /\ call.prevState = "done"

\* the continuation of validateUrls: both legs have resolved
Join(c) ==
  /\ calls[c].pc = "validate"
  /\ PromiseAll(calls[c])
  /\ LET j == IF calls[c].tier = 1 THEN JoinStored(calls[c], cache, now)
              ELSE JoinLearned(calls[c], cache, now)
     IN /\ cache' = j.cache
        /\ calls' = [calls EXCEPT ![c] = j.call]
  /\ UNCHANGED <<now, memo, arg, ret, lib>>

\* savePatterns of updatePattern or addPattern, and the return
Save(c) ==
  /\ calls[c].pc = "save"
  /\ cache' = savePatterns(cache, calls[c].toSave, now)
  /\ calls' = [calls EXCEPT ![c] =
       [calls[c] EXCEPT !.pc = "done", !.result = ResultOf(calls[c])]]
  /\ UNCHANGED <<now, memo, arg, ret, lib>>

\* scrapeNavigationLinks, lines 402-409: the cache lookup
ScrapeLookup(c) ==
  /\ calls[c].pc = "scrape"
  /\ LET cached == getScrape(cache, NavKey(calls[c].url), now)
     IN /\ cache' = cached.cache
        /\ calls' = [calls EXCEPT ![c] =
             IF cached.hit
             THEN [calls[c] EXCEPT !.pc = "done", !.scraped = cached.data,
                     !.outcome = "cached",
                     !.result = ScrapingResult(calls[c], cached.data)]
             ELSE [calls[c] EXCEPT !.pc = "fetch"]]
  /\ UNCHANGED <<now, memo, arg, ret, lib>>

\* scrapeNavigationLinks, lines 411-437: the scrape, the cache write, and
\* lines 169-177 of predictNavigation.  A rejection of scrapeNavigationLinks
\* would reject predictNavigation
ScrapeFetch(c, outcome) ==
  /\ Quiet
  /\ calls[c].pc = "fetch"
  /\ LET scrapedLinks == scrapeNavigationLinks(outcome)
     IN /\ cache' = IF scrapedLinks.cached
                    THEN setScrape(cache, NavKey(calls[c].url),
                                   scrapedLinks.links, 24 * 60 * 60 * 1000, now)
                    ELSE cache
        /\ calls' = [calls EXCEPT ![c] =
             IF scrapedLinks.raised
             THEN [calls[c] EXCEPT !.pc = "raised", !.outcome = outcome.kind]
             ELSE [calls[c] EXCEPT !.pc = "done",
                     !.scraped = scrapedLinks.links,
                     !.outcome = outcome.kind,
                     !.result = ScrapingResult(calls[c], scrapedLinks.links)]]
  /\ UNCHANGED <<now, memo, arg, ret, lib>>

\* the caller takes the result: the call slot is free for the next call
Return(c) ==
  /\ calls[c].pc = "done"
  /\ calls' = [calls EXCEPT ![c] = Idle]
  /\ UNCHANGED <<now, cache, memo, arg, ret, lib>>

\* Date.now() advances
Tick(t) ==
  /\ Quiet
  /\ t > now
  /\ now' = t
  /\ UNCHANGED <<cache, calls, memo, arg, ret, lib>>

\* the setInterval of the Cache constructor
Cleanup ==
  /\ Quiet
  /\ cache' = MemoryCacheCleanup(cache, now)
  /\ cache' # cache
  /\ UNCHANGED <<now, calls, memo, arg, ret, lib>>

\* the scrape route caches maxSize pages under fresh keys: every set at
\* capacity deletes the oldest entry, so no earlier entry is left
OtherWrites ==
  /\ Quiet
  /\ cache.fill < maxSize
  /\ cache' = [fill |-> maxSize, fillTime |-> now, entries |-> {}]
  /\ UNCHANGED <<now, calls, memo, arg, ret, lib>>

\* the steps of call c, which is made with a URL of urls
Step(c, urls) ==
  \/ \E url \in urls : Begin(c, url)
  \/ \E side \in {"next", "prev"} : ValidateLookup(c, side)
  \/ \E side \in {"next", "prev"}, head \in HeadOutcomes, get \in GetOutcomes :
       ValidateFetch(c, side, head, get)
  \/ Join(c)
  \/ Save(c)
  \/ ScrapeLookup(c)
  \/ \E outcome \in ScrapeOutcomes : ScrapeFetch(c, outcome)
  \/ Return(c)

\* one caller at a time, the clock, and the other users of the cache
Next ==
  \/ Step(1, {ChapterUrl, TocUrl})
  \/ \E t \in {DAY + 1} : Tick(t)
  \/ Cleanup
  \/ OtherWrites

Spec == Init /\ [][Next]_vars

\* concurrent callers
NextRace ==
  \E c \in Calls : Step(c, {ChapterUrl})

SpecRace == Init /\ [][NextRace]_vars

\* what call c does by itself once it is made
Progress(c) ==
  \/ \E side \in {"next", "prev"} : ValidateLookup(c, side)
  \/ \E side \in {"next", "prev"}, head \in HeadOutcomes, get \in GetOutcomes :
       ValidateFetch(c, side, head, get)
  \/ Join(c)
  \/ Save(c)
  \/ ScrapeLookup(c)
  \/ \E outcome \in ScrapeOutcomes : ScrapeFetch(c, outcome)

\* continuations in the microtask queue are run, and every fetch settles
\* (the HEAD request is aborted after 5 s, the scrape after its timeout)
SpecFair == Spec /\ WF_vars(Progress(1))

\* The Map after writes of other routes at capacity have evicted its first
\* keys up to the pattern list: the list was the Map's first key (a rewrite
\* keeps a key's place); the verdicts of the candidates of two chapters that
\* were written after it are still in the Map, in the order of their
\* timestamps, before the other routes' entries
Candidates ==
  <<NextTable[ChapterUrl], PrevTable[ChapterUrl],
    NextTable[OtherUrl], PrevTable[OtherUrl]>>

Verdicts == [DOMAIN Candidates -> {"none", "valid", "invalid"}]

Evicted(verdicts) ==
  LET kept == {i \in DOMAIN Candidates : verdicts[i] # "none"}
  IN [fill |-> maxSize - Cardinality(kept), fillTime |-> HOUR,
      entries |-> {[key |-> ValidKey(Candidates[i]), data |-> verdicts[i],
                    timestamp |-> i, ttl |-> scrapeTTL] : i \in kept}]

InitPair ==
  /\ now = HOUR
  /\ memo = StringFunctions
  /\ \E verdicts \in Verdicts : cache = Evicted(verdicts)
  /\ calls = [c \in Calls |-> Idle]
  /\ arg = Null
  /\ ret = NoReturn
  /\ InitLib

\* one request of one site and one of another, in flight at once
NextPair ==
  \/ Begin(1, ChapterUrl) \/ Progress(1)
  \/ Begin(2, OtherUrl) \/ Progress(2)

SpecPair == InitPair /\ [][NextPair]_vars


(***************************************************************************)
(* The store written through the exported patternStorage as well           *)
(***************************************************************************)
\* patternStorage.addPattern(pattern), called by another module
AddPattern(pattern) ==
  /\ Quiet
  /\ LET read == getPatterns(cache, now)
     IN cache' = savePatterns(read.cache,
                              addPatternList(read.patterns, pattern), now)
  /\ UNCHANGED <<now, calls, memo, arg, ret, lib>>

\* the confidence values of the patterns written that way
SeedConfidences == {500, 600, 601}

\* a pattern of the site of ChapterUrl with confidence conf
SeedPattern(conf) ==
  [LearnTable[ChapterUrl] EXCEPT !.confidence = conf, !.successRate = conf]

NextStore ==
  \/ Step(1, {ChapterUrl, TocUrl})
  \/ \E conf \in SeedConfidences : AddPattern(SeedPattern(conf))

SpecStore == Init /\ [][NextStore]_vars

(***************************************************************************)
(* Concurrent callers on one site, and another site's pattern added        *)
(* through patternStorage                                                  *)
(***************************************************************************)
NextMerge ==
  \/ \E c \in Calls : Step(c, {ChapterUrl})
  \/ AddPattern(LearnTable[OtherUrl])

SpecMerge == Init /\ [][NextMerge]_vars

(***************************************************************************)
(* One caller reading two chapters of one site                             *)
(***************************************************************************)
NextSite == Step(1, {ChapterUrl, FirstUrl})

SpecSite == Init /\ [][NextSite]_vars

(***************************************************************************)
(* One caller reading a site that names the chapter in the query string    *)
(***************************************************************************)
NextQuery == Step(1, {QueryUrl})

SpecQuery == Init /\ [][NextQuery]_vars

(***************************************************************************)
(* One caller calling again within the hour and after more than an hour    *)
(***************************************************************************)
NextHour ==
  \/ Step(1, {ChapterUrl})
  \/ \E t \in {HOUR, HOUR + 1} : Tick(t)

SpecHour == Init /\ [][NextHour]_vars

(***************************************************************************)
(* One caller calling again as soon as the call before has returned, the   *)
(* call before kept in ret                                                 *)
(***************************************************************************)
\* the caller takes the result and keeps it
ReturnKept(c) ==
  /\ calls[c].pc = "done"
  /\ calls' = [calls EXCEPT ![c] = Idle]
  /\ ret' = [fn |-> "predictNavigation", value |-> calls[c]]
  /\ UNCHANGED <<now, cache, memo, arg, lib>>

NextTwice ==
  \/ \E url \in {ChapterUrl, TocUrl} : Begin(1, url)
  \/ Progress(1)
  \/ ReturnKept(1)

SpecTwice == Init /\ [][NextTwice]_vars

(***************************************************************************)
(* The exported functions of the url-prediction module called by           *)
(* themselves with a URL                                                   *)
(***************************************************************************)
\* the URLs are a host, the path above the chapter and the chapter's own
\* segment; n2.io and /v2/ hold a digit outside the chapter segment
UrlHosts ==
  {<<"a", ".", "i", "o">>,
   <<"n", "2", ".", "i", "o">>}

UrlPrefixes ==
  {<<"/">>, <<"/", "v", "2", "/">>}

UrlSegments ==
  {<<"c", "h", "-", "0">>,
   <<"c", "h", "-", "1">>,
   <<"c", "h", "-", "2">>,
   <<"c", "h", "-", "1", "9">>,
   <<"c", "h", "a", "p", "t", "e", "r", "-", "9">>,
   <<"c", "h", "a", "p", "t", "e", "r", "-", "1", "a">>,
   <<"c", "h", "-", "2", "b">>,
   <<"2", "b", ".", "h", "t", "m", "l">>,
   <<"7", ".", "h", "t", "m", "l">>,
   <<"t", "o", "c">>}

UrlInputs ==
  {<<"h", "t", "t", "p", ":", "/", "/">> \o h \o p \o g :
     h \in UrlHosts, p \in UrlPrefixes, g \in UrlSegments}

InitUrl ==
  /\ now = 0
  /\ cache = EmptyCache
  /\ calls = [c \in Calls |-> Idle]
  /\ memo = StringFunctions
  /\ arg \in UrlInputs
  /\ ret = NoReturn
  /\ InitLib

Returns(fn, value) ==
  /\ ret = NoReturn
  /\ ret' = [fn |-> fn, value |-> value]
  /\ UNCHANGED <<now, cache, calls, memo, arg, lib>>

CallExtract == Returns("extractChapterIdentifier", extractChapterIdentifier(arg))

CallLearn == Returns("learnPattern", learnPattern(arg, now))

CallNext == Returns("generateNextUrl", generateNextUrl(arg, NoPattern))

CallPrev == Returns("generatePrevUrl", generatePrevUrl(arg, NoPattern))

NextUrl ==
  \/ CallExtract
  \/ CallLearn
  \/ CallNext
  \/ CallPrev

SpecUrl == InitUrl /\ [][NextUrl]_vars

(***************************************************************************)
(* POST /api/next-chapter, up to the first answer or to the cache lookup   *)
(* of line 125.  A request is what the handler reads of it: whether        *)
(* checkRateLimit lets it pass, what request.json() gives (a rejection, a  *)
(* value that is no object, an object), the url of the body, and what      *)
(* validateSourceUrl says of that url.                                     *)
(***************************************************************************)
Requests ==
  [belowLimit : BOOLEAN, json : {"invalid", "null"}, url : {Null},
   sourceUrlValid : {FALSE}]
    \cup [belowLimit : BOOLEAN, json : {"object"}, url : UrlInputs \cup {Null},
          sourceUrlValid : BOOLEAN]

\* validateRequest(requestData, type) of security.ts for the types scrape
\* and nextChapter.  sanitized.url is Null when sanitized has no url; the
\* translate branch, which fills text, sourceUrl and chapterNumber, is left
\* out
validateRequest(requestData, type) ==
  IF requestData.json # "object"
  THEN [isValid |-> FALSE, errors |-> 1, sanitized |-> [url |-> Null]]
  ELSE IF type = "scrape"
  THEN IF requestData.url # Null /\ requestData.sourceUrlValid
       THEN [isValid |-> TRUE, errors |-> 0, sanitized |-> [url |-> requestData.url]]
       ELSE [isValid |-> FALSE, errors |-> 1, sanitized |-> [url |-> Null]]
  ELSE [isValid |-> TRUE, errors |-> 0, sanitized |-> [url |-> Null]]

Response(status, error) == [status |-> status, error |-> error]

\* the handler has not answered: it goes on to cache.getScrape and
\* predictNavigation with url
Predicting(url) == [status |-> 0, error |-> "none", url |-> url]

\* POST, lines 36-123
PostAnswer(request) ==
  LET validation == validateRequest(request, "nextChapter")
      url == validation.sanitized.url
  IN IF ~request.belowLimit THEN Response(429, "Rate limit exceeded")
     ELSE IF request.json = "invalid"
     THEN Response(400, "Invalid JSON in request body")
     ELSE IF ~validation.isValid THEN Response(400, "Request validation failed")
     ELSE IF url = Null THEN Response(400, "Invalid request")
     ELSE Predicting(url)

InitRoute ==
  /\ now = 0
  /\ cache = EmptyCache
  /\ calls = [c \in Calls |-> Idle]
  /\ memo = StringFunctions
  /\ arg \in Requests
  /\ ret = NoReturn
  /\ InitLib

Post ==
  /\ ret = NoReturn
  /\ ret' = [fn |-> "POST", value |-> PostAnswer(arg)]
  /\ UNCHANGED <<now, cache, calls, memo, arg, lib>>

SpecRoute == InitRoute /\ [][Post]_vars

(***************************************************************************)
(* RateLimiter and checkRateLimit.  One endpoint; a key is the client's    *)
(* ip.  Each limiter keeps its own MemoryStore.                            *)
(***************************************************************************)
\* rateLimiters.perMinute and rateLimiters.perDay: the RateLimitConfig
perMinute == [windowMs |-> 60 * 1000, maxRequests |-> 10]

perDay == [windowMs |-> DAY, maxRequests |-> 100]

\* Math.ceil(a / b) for a >= 0, b > 0
Ceil(a, b) == (a + b - 1) \div b

\* MemoryStore.get at time t: an expired entry is deleted and null returned
StoreGet(store, key, t) ==
  IF store[key] = NoEntry \/ t > store[key].resetTime
  THEN NoEntry
  ELSE store[key]

\* RateLimiter.check(key) at time t: the RateLimitInfo and the store it
\* leaves
RateLimiterCheck(config, store, key, t) ==
  LET entry == StoreGet(store, key, t)
      fresh == [count |-> 1, resetTime |-> t + config.windowMs]
  IN IF entry = NoEntry \/ t > entry.resetTime
     THEN [store |-> [store EXCEPT ![key] = fresh],
           info |-> [success |-> TRUE, remaining |-> config.maxRequests - 1,
                     total |-> config.maxRequests,
                     resetTime |-> t + config.windowMs]]
     ELSE IF entry.count >= config.maxRequests
     THEN [store |-> store,
           info |-> [success |-> FALSE, remaining |-> 0,
                     total |-> config.maxRequests,
                     resetTime |-> entry.resetTime,
                     retryAfter |-> Ceil(entry.resetTime - t, 1000)]]
     ELSE [store |-> [store EXCEPT ![key].count = entry.count + 1],
           info |-> [success |-> TRUE,
                     remaining |-> config.maxRequests - (entry.count + 1),
                     total |-> config.maxRequests,
                     resetTime |-> entry.resetTime]]

\* checkRateLimit(ip, endpoint) at time t: both limiters are asked, in
\* this order, whatever the first answers
checkRateLimit(limiters, ip, t) ==
  LET minuteCheck == RateLimiterCheck(perMinute, limiters.perMinute, ip, t)
      dayCheck == RateLimiterCheck(perDay, limiters.perDay, ip, t)
  IN [limiters |-> [perMinute |-> minuteCheck.store, perDay |-> dayCheck.store],
      info |-> IF ~minuteCheck.info.success THEN minuteCheck.info
               ELSE IF ~dayCheck.info.success THEN dayCheck.info
               ELSE IF minuteCheck.info.remaining <= dayCheck.info.remaining
               THEN minuteCheck.info
               ELSE dayCheck.info]

\* a request of client ip arrives; log keeps the calls that succeeded
CheckRateLimit(ip) ==
  LET r == checkRateLimit(rateLimiters, ip, now)
  IN /\ rateLimiters' = r.limiters
     /\ ret' = [fn |-> "checkRateLimit", value |-> r.info]
     /\ arg' = ip
     /\ log' = IF r.info.success THEN Append(log, [ip |-> ip, t |-> now]) ELSE log
     /\ UNCHANGED <<now, engine, retry, requestQueue, navigator>>

\* MemoryStore.cleanup of one limiter, run by the setInterval of its
\* constructor
StoreCleanup(store) ==
  [key \in DOMAIN store |->
     IF store[key] # NoEntry /\ now > store[key].resetTime
     THEN NoEntry
     ELSE store[key]]

LimiterCleanup ==
  /\ rateLimiters' = [perMinute |-> StoreCleanup(rateLimiters.perMinute),
                      perDay |-> StoreCleanup(rateLimiters.perDay)]
  /\ rateLimiters' # rateLimiters
  /\ UNCHANGED <<now, engine, arg, ret, retry, requestQueue, navigator, log>>

\* the instants at which requests arrive: the start, just before the end
\* of the first window, its last millisecond, and the millisecond after it
Instants == {0, 59990, 60000, 60001}

NextLimit ==
  \/ \E ip \in Clients : CheckRateLimit(ip)
  \/ \E t \in Instants : Tick(t)
  \/ LimiterCleanup

SpecLimit == Init /\ [][NextLimit]_vars

(***************************************************************************)
(* retryWithBackoff(fn, options).  The k-th invocation of fn resolves with *)
(* the value "data" or rejects with the error k.                           *)
(***************************************************************************)
DEFAULT_OPTIONS ==
  [maxRetries |-> 4, initialDelay |-> 1000, maxDelay |-> 8000,
   backoffMultiplier |-> 2]

\* { ...DEFAULT_OPTIONS, ...options } for the options callers pass
RetryOptions ==
  [maxRetries : {0, 1, 2, DEFAULT_OPTIONS.maxRetries},
   initialDelay : {DEFAULT_OPTIONS.initialDelay, 3000},
   maxDelay : {2000, DEFAULT_OPTIONS.maxDelay},
   backoffMultiplier : {DEFAULT_OPTIONS.backoffMultiplier}]

\* delay = Math.min(delay * opts.backoffMultiplier, opts.maxDelay)
nextDelayUncapped(delay, opts) == delay * opts.backoffMultiplier

nextDelay(delay, opts) == Min(delay * opts.backoffMultiplier, opts.maxDelay)

\* the call, up to the first await fn()
RetryCall(opts) ==
  /\ retry.pc = "idle"
  /\ retry' = [pc |-> "fn", opts |-> opts, attempt |-> 0,
               delay |-> opts.initialDelay, lastError |-> 0]
  /\ arg' = opts
  /\ log' = Append(log, [ev |-> "fn", n |-> 1])
  /\ UNCHANGED <<now, engine, ret, rateLimiters, requestQueue, navigator>>

\* fn() resolves: return { success: true, data, attempts: attempt + 1 }
RetryResolve ==
  /\ retry.pc = "fn"
  /\ retry' = [retry EXCEPT !.pc = "done"]
  /\ ret' = [fn |-> "retryWithBackoff",
             value |-> [success |-> TRUE, data |-> "data", error |-> 0,
                        attempts |-> retry.attempt + 1]]
  /\ UNCHANGED <<now, engine, arg, rateLimiters, requestQueue, navigator, log>>

\* fn() rejects: the catch block, then either the return after the loop
\* or sleep(delay)
RetryReject ==
  /\ retry.pc = "fn"
  /\ IF retry.attempt = retry.opts.maxRetries
     THEN /\ retry' = [retry EXCEPT !.pc = "done",
                                    !.lastError = retry.attempt + 1]
          /\ ret' = [fn |-> "retryWithBackoff",
                     value |-> [success |-> FALSE, data |-> "none",
                                error |-> retry.attempt + 1,
                                attempts |-> retry.opts.maxRetries + 1]]
          /\ log' = log
     ELSE /\ retry' = [retry EXCEPT !.pc = "sleep",
                                    !.lastError = retry.attempt + 1]
          /\ log' = Append(log, [ev |-> "sleep", n |-> retry.delay])
          /\ ret' = ret
  /\ UNCHANGED <<now, engine, arg, rateLimiters, requestQueue, navigator>>

\* the timer of sleep(delay) fires: the next delay, attempt++, fn()
RetryWake ==
  /\ retry.pc = "sleep"
  /\ now' = now + retry.delay
  /\ retry' = [retry EXCEPT !.pc = "fn",
                            !.delay = nextDelay(retry.delay, retry.opts),
                            !.attempt = retry.attempt + 1]
  /\ log' = Append(log, [ev |-> "fn", n |-> retry.attempt + 2])
  /\ UNCHANGED <<engine, arg, ret, rateLimiters, requestQueue, navigator>>

RetryStep == RetryResolve \/ RetryReject \/ RetryWake

NextRetry == (\E opts \in RetryOptions : RetryCall(opts)) \/ RetryStep

SpecRetry == Init /\ [][NextRetry]_vars

\* fn settles, and timers fire
SpecRetryFair == SpecRetry /\ WF_vars(RetryStep)

(***************************************************************************)
(* RequestQueue and executeWithRetry.  A request is named by the position  *)
(* of its promise in requestQueue.promises; its fn, once invoked, resolves *)
(* or rejects at some later task.                                          *)
(***************************************************************************)
maxQueueSize == 50

maxAge == 5 * 60 * 1000

MaxRequests == 3

\* cleanQueue() at time t: the items kept and the ids of those rejected
\* with 'Request expired in queue'
cleanQueueSilently(queue, t) ==
  [queue |-> SelectSeq(queue, LAMBDA item : ~(t - item.timestamp > maxAge)),
   expired |-> {}]

cleanQueue(queue, t) ==
  [queue |-> SelectSeq(queue, LAMBDA item : ~(t - item.timestamp > maxAge)),
   expired |-> {queue[k].id : k \in {j \in 1..Len(queue) :
                                       t - queue[j].timestamp > maxAge}}]

\* the promises after those of ids were rejected with error
RejectAll(promises, ids, error) ==
  [k \in 1..Len(promises) |-> IF k \in ids THEN error ELSE promises[k]]

\* item.fn() is invoked
Run(item) == [ev |-> "fn", id |-> item.id, onLine |-> navigator.onLine]

\* processQueue() called on q, up to its first await: the guard, then
\* processing = true, shift, item.fn()
processQueue(q) ==
  IF q.processing \/ Len(q.queue) = 0
  THEN q
  ELSE [q EXCEPT !.processing = TRUE,
                 !.queue = Tail(q.queue),
                 !.loops = Append(q.loops, [pc |-> "fn", item |-> Head(q.queue)])]

\* requestQueue.enqueue(fn) at time now
enqueue ==
  LET id == Len(requestQueue.promises) + 1
      cleaned == cleanQueue(requestQueue.queue, now)
      promises == RejectAll(requestQueue.promises, cleaned.expired, "expired")
      full == Len(cleaned.queue) >= maxQueueSize
      pushed == [requestQueue EXCEPT
                   !.queue = Append(cleaned.queue, [id |-> id, timestamp |-> now]),
                   !.promises = Append(promises, "pending")]
      started == IF ~pushed.processing THEN processQueue(pushed) ELSE pushed
  IN IF full
     THEN /\ requestQueue' = [requestQueue EXCEPT
                                !.queue = cleaned.queue,
                                !.promises = Append(promises, "full")]
          /\ log' = log
     ELSE /\ requestQueue' = started
          /\ log' = IF Len(started.loops) > Len(pushed.loops)
                    THEN Append(log, Run(Head(pushed.queue)))
                    ELSE log

\* the retry options that the callers of executeWithRetry pass beside
\* useQueue: no retry
ExecuteOptions == [DEFAULT_OPTIONS EXCEPT !.maxRetries = 0]

\* executeWithRetry(fn, { ...ExecuteOptions, useQueue }) in the browser
ExecuteWithRetry(useQueue) ==
  /\ Len(requestQueue.promises) < MaxRequests
  /\ arg' = [useQueue |-> useQueue]
  /\ IF ~navigator.onLine
     THEN IF useQueue
          THEN /\ enqueue
               /\ UNCHANGED <<ret, retry>>
          ELSE /\ ret' = [fn |-> "executeWithRetry", value |-> "You are offline"]
               /\ UNCHANGED <<requestQueue, retry, log>>
     ELSE /\ retry.pc = "idle"
          /\ retry' = [pc |-> "fn", opts |-> ExecuteOptions, attempt |-> 0,
                       delay |-> ExecuteOptions.initialDelay, lastError |-> 0]
          /\ log' = Append(log, [ev |-> "fn", n |-> 1])
          /\ UNCHANGED <<ret, requestQueue>>
  /\ UNCHANGED <<now, engine, rateLimiters, navigator>>

\* the fn of the item of loop i settles: item.resolve(result) or
\* item.reject(error), then sleep(100)
QueueSettle(i, outcome) ==
  /\ i \in 1..Len(requestQueue.loops)
  /\ requestQueue.loops[i].pc = "fn"
  /\ requestQueue' =
       [requestQueue EXCEPT !.promises[requestQueue.loops[i].item.id] = outcome,
                            !.loops[i].pc = "sleep"]
  /\ UNCHANGED <<now, engine, arg, ret, rateLimiters, retry, navigator, log>>

\* the timer of sleep(100) of loop i fires: the while condition, then
\* either shift and item.fn() or processing = false and return
QueueWake(i) ==
  /\ i \in 1..Len(requestQueue.loops)
  /\ requestQueue.loops[i].pc = "sleep"
  /\ now' = now + 100
  /\ IF Len(requestQueue.queue) > 0
     THEN /\ requestQueue' =
               [requestQueue EXCEPT
                  !.queue = Tail(requestQueue.queue),
                  !.loops[i] = [pc |-> "fn", item |-> Head(requestQueue.queue)]]
          /\ log' = Append(log, Run(Head(requestQueue.queue)))
     ELSE /\ requestQueue' =
               [requestQueue EXCEPT
                  !.processing = FALSE,
                  !.loops = SubSeq(requestQueue.loops, 1, i - 1)
                              \o SubSeq(requestQueue.loops, i + 1,
                                        Len(requestQueue.loops))]
          /\ log' = log
  /\ UNCHANGED <<engine, arg, ret, rateLimiters, retry, navigator>>

\* the browser's online and offline events
Connection ==
  /\ navigator' = [onLine |-> ~navigator.onLine]
  /\ UNCHANGED <<now, engine, arg, ret, rateLimiters, retry, requestQueue, log>>

QueueStep ==
  \E i \in 1..MaxRequests :
    \/ \E outcome \in {"resolved", "rejected"} : QueueSettle(i, outcome)
    \/ QueueWake(i)

\* the instants after the maxAge of a request queued in the first second
QueueInstants == {maxAge + 1000}

NextQueue ==
  \/ \E useQueue \in BOOLEAN : ExecuteWithRetry(useQueue)
  \/ QueueStep
  \/ Connection
  \/ RetryResolve
  \/ RetryReject
  \/ \E t \in QueueInstants : Tick(t)

SpecQueue == Init /\ [][NextQueue]_vars

\* each queued fn settles, and timers fire
SpecQueueFair == SpecQueue /\ WF_vars(QueueStep)

(***************************************************************************)
(* Claims                                                                  *)
(***************************************************************************)
\* getPattern(domain) at this moment
StoredPattern(domain) ==
  FindPattern(getPatterns(cache, now).patterns, domain)

HasIdentifier(url) == ExtractTable[url].identifier # Null

\* call c starts in this step
Begins(c) == calls[c].pc = "idle" /\ calls'[c].pc # "idle"

\* C1: a call takes tier 1, without learning, exactly when its URL has an
\* identifier and the pattern stored for its hostname has a confidence above
\* 0.6; with an identifier and a confidence of 0.6 or less, or no stored
\* pattern, it learns a pattern (tier 2)
C1_TierOneIffAboveThreshold ==
  [][\A c \in Calls :
       Begins(c) =>
         LET url == calls'[c].url
             stored == StoredPattern(HostTable[url])
             above == stored # NoPattern /\ stored.confidence > 600
         IN /\ calls'[c].tier = 1 <=> (HasIdentifier(url) /\ above)
            /\ calls'[c].tier = 1 => calls'[c].learnedPattern = NoPattern
            /\ (HasIdentifier(url) /\ ~above) =>
                 /\ calls'[c].tier = 2
                 /\ calls'[c].learnedPattern # NoPattern]_vars

\* a call that found a stored pattern of confidence exactly 0.6 is learning
C1_Witness ==
  \E c \in Calls :
    /\ calls[c].tier = 2
    /\ calls[c].domainPattern.confidence = 600


\* C2: a result with method = pattern carries the next candidate exactly when
\* it validated and the previous candidate exactly when it validated, null
\* otherwise, and validated = true
C2_PatternResultCarriesValidatedSides ==
  \A c \in Calls :
    (calls[c].pc = "done" /\ calls[c].result.method = "pattern") =>
      /\ calls[c].result.validated
      /\ calls[c].result.nextUrl # Null <=> calls[c].nextValid
      /\ calls[c].nextValid => calls[c].result.nextUrl = calls[c].nextUrl
      /\ calls[c].result.previousUrl # Null <=> calls[c].prevValid
      /\ calls[c].prevValid => calls[c].result.previousUrl = calls[c].prevUrl

\* a pattern result whose previous candidate was generated and failed
\* validation, while the next candidate validated
C2_Witness ==
  \E c \in Calls :
    /\ calls[c].pc = "done" /\ calls[c].result.method = "pattern"
    /\ calls[c].prevUrl # Null /\ ~calls[c].prevValid
    /\ calls[c].result.previousUrl = Null
    /\ calls[c].result.nextUrl # Null


\* the hostnames of the input URLs
Hosts == {HostTable[u] : u \in Urls}

\* the pattern list held by the cache entry, expired or not
RawPatterns ==
  IF Has(cache, CACHE_KEY) THEN EntryOf(cache, CACHE_KEY).data ELSE <<>>

\* C3: a domain without stored pattern gets one only by the write of a
\* tier-2 call of which a candidate validated; the pattern is stored with
\* confidence 0.7 and successRate 0.7 and the call returns method = pattern
\* with confidence 0.7.  A tier-2 call of which no candidate validated goes
\* on to the scraper and leaves the stored list as it is
C3_PersistedOnlyAfterValidation ==
  [][/\ \A d \in Hosts :
          (StoredPattern(d) = NoPattern /\ StoredPattern(d)' # NoPattern) =>
            \E c \in Calls :
              /\ calls[c].pc = "save" /\ calls'[c].pc = "done"
              /\ calls[c].tier = 2
              /\ calls[c].nextValid \/ calls[c].prevValid
              /\ StoredPattern(d)'.confidence = 700
              /\ StoredPattern(d)'.successRate = 700
              /\ calls'[c].result.method = "pattern"
              /\ calls'[c].result.confidence = 700
     /\ \A c \in Calls :
          (/\ calls[c].pc = "validate" /\ calls'[c].pc # "validate"
           /\ calls[c].tier = 2
           /\ ~calls[c].nextValid /\ ~calls[c].prevValid) =>
            /\ calls'[c].pc = "scrape"
            /\ RawPatterns' = RawPatterns]_vars

\* a tier-2 call has returned and its pattern is stored with 0.7
C3_Witness ==
  \E c \in Calls :
    /\ calls[c].pc = "done" /\ calls[c].tier = 2
    /\ calls[c].result.method = "pattern"
    /\ StoredPattern(HostTable[calls[c].url]).confidence = 700


\* the cached verdicts of validateUrl
ValidityEntries == {e \in cache.entries : e.key.ns = "url-valid"}

\* C4: a call in the scraping tier makes no validateUrl call and writes no
\* validation verdict, and it returns the scraper's links as they are, with
\* pattern = null, method = scraping, confidence = 0.3 and validated = true
C4_ScrapingResultVerbatim ==
  [][\A c \in Calls :
       (calls[c].pc \in {"scrape", "fetch"} /\ calls'[c] # calls[c]) =>
         /\ calls'[c].pc \in {"fetch", "done"}
         /\ calls'[c].probes = calls[c].probes
         /\ ValidityEntries' = ValidityEntries
         /\ calls'[c].pc = "done" =>
              calls'[c].result =
                [nextUrl |-> calls'[c].scraped.nextUrl,
                 previousUrl |-> calls'[c].scraped.prevUrl,
                 pattern |-> NoPattern,
                 confidence |-> 300,
                 method |-> "scraping",
                 sourceUrl |-> calls[c].url,
                 validated |-> TRUE]]_vars

\* a scraping result with a link for which no verdict was ever cached
C4_Witness ==
  \E c \in Calls :
    /\ calls[c].pc = "done" /\ calls[c].result.method = "scraping"
    /\ calls[c].result.nextUrl # Null
    /\ calls[c].probes = 0
    /\ ~Has(cache, ValidKey(calls[c].result.nextUrl))


\* C5: a call never raises, whatever the probes and the scrape end in; a
\* scrape that fails (error result or exception) yields null links; and
\* every call that is made returns
C5_AlwaysReturns ==
  /\ [](\A c \in Calls :
          /\ calls[c].pc # "raised"
          /\ (calls[c].pc = "done" /\ calls[c].outcome \in {"error", "throw"}) =>
               /\ calls[c].result.method = "scraping"
               /\ calls[c].result.nextUrl = Null
               /\ calls[c].result.previousUrl = Null)
  /\ (calls[1].pc # "idle") ~> (calls[1].pc = "done")

\* a call whose candidates both failed validation and whose scrape threw
\* has returned
C5_Witness ==
  \E c \in Calls :
    /\ calls[c].pc = "done" /\ calls[c].outcome = "throw"
    /\ calls[c].probes = 2 /\ ~calls[c].nextValid /\ ~calls[c].prevValid
    /\ calls[c].result.nextUrl = Null


\* C6: every pattern of the stored list has a confidence between 0 and 0.95
\* and a successRate between 0 and 1
C6_StoredRatesInRange ==
  \A i \in 1..Len(RawPatterns) :
    /\ 0 <= RawPatterns[i].confidence /\ RawPatterns[i].confidence <= 950
    /\ 0 <= RawPatterns[i].successRate /\ RawPatterns[i].successRate <= 1000

\* a tier-1 call that read a pattern already at 0.95 had a candidate
\* validated and wrote the pattern back
C6_Witness ==
  \E c \in Calls :
    /\ calls[c].pc = "done" /\ calls[c].tier = 1
    /\ calls[c].domainPattern.successRate = 950
    /\ calls[c].nextValid
    /\ StoredPattern(HostTable[calls[c].url]) # NoPattern
    /\ StoredPattern(HostTable[calls[c].url]).confidence = 950
    /\ StoredPattern(HostTable[calls[c].url]).lastUsed = now


\* C7: every pattern of the stored list has confidence = min(0.95,
\* successRate), under any interleaving of calls and through the merge of
\* addPattern.  The merge writes the new confidence 0.7 beside the
\* successRate of the record it replaces, so this is violated
C7_ConfidenceDerivedFromSuccessRate ==
  \A i \in 1..Len(RawPatterns) :
    RawPatterns[i].confidence = Min(950, RawPatterns[i].successRate)


\* call c writes its pattern list in this step, having used a stored pattern
TierOneSaves(c) ==
  calls[c].pc = "save" /\ calls'[c].pc = "done" /\ calls[c].tier = 1

\* C8: when a tier-1 call of which a candidate validated writes the pattern
\* back, the stored successRate is 0.7 * (old successRate) + 0.3, the
\* confidence is min(0.95, new successRate) and lastUsed is the time of the
\* write.  The code adds 0.05 instead, so this is violated
C8_TierOneSuccessIsEWMA ==
  [][\A c \in Calls :
       TierOneSaves(c) =>
         LET old == StoredPattern(HostTable[calls[c].url])
             new == StoredPattern(HostTable[calls[c].url])'
         IN /\ 10 * new.successRate = 7 * old.successRate + 3000
            /\ new.confidence = Min(950, new.successRate)
            /\ new.lastUsed = now']_vars


\* call c, having used a stored pattern, finds that neither candidate
\* validated, and returns
TierOneFails(c) ==
  /\ calls[c].pc = "validate" /\ calls'[c].pc = "done"
  /\ calls[c].tier = 1
  /\ ~calls[c].nextValid /\ ~calls[c].prevValid

\* C9: a call that used a stored pattern of confidence above 0.6 and of
\* which neither candidate validated leaves the pattern stored with its
\* confidence multiplied by 0.7.  The code leaves the record as it is, so
\* this is violated
C9_FailureDecaysConfidence ==
  [][\A c \in Calls :
       (TierOneFails(c) /\ StoredPattern(HostTable[calls[c].url]) # NoPattern) =>
         LET old == StoredPattern(HostTable[calls[c].url])
             new == StoredPattern(HostTable[calls[c].url])'
         IN /\ new # NoPattern
            /\ new.confidence <= old.confidence
            /\ 10 * new.confidence = 7 * old.confidence]_vars


\* C10: a domain that has a stored pattern keeps one, whatever happens next:
\* getPattern(domain) answers a pattern after every later step, time passing
\* and other cache writes included.  The pattern list is a cache entry with
\* a 24 hour lifetime in a Map of at most maxSize keys, so this is violated
C10_PatternStaysRetrievable ==
  [][\A d \in Hosts :
       StoredPattern(d) # NoPattern => StoredPattern(d)' # NoPattern]_vars


\* C11: the stored list never holds two patterns of one domain
C11_OnePatternPerDomain ==
  \A i, j \in 1..Len(RawPatterns) :
    RawPatterns[i].domain = RawPatterns[j].domain => i = j

\* the list holds the patterns of two domains, and a call that learned its
\* pattern while none was stored has merged it into the record another call
\* had raised in between
C11_Witness ==
  /\ Len(RawPatterns) = 2
  /\ \E i \in 1..Len(RawPatterns) :
       /\ RawPatterns[i].confidence = 700
       /\ RawPatterns[i].successRate = 750


RECURSIVE MatchOf(_, _)
\* the match of the first rule, from rule k on, that captures an identifier
\* in path
MatchOf(path, k) ==
  IF k > Len(patterns) THEN NoMatch
  ELSE LET m == RegexMatch(patterns[k].regex, patterns[k].ci, path)
       IN IF m.ok /\ FirstGroup(m) # <<>> THEN m ELSE MatchOf(path, k + 1)

\* the position of url at which pathname + search begins
PathStart(url) == ScanTo(url, HostStart(url), {"/", "?"})

\* url with the text old replaced by new inside the match m of its path, and
\* every character outside that match kept
ReplacedIn(url, m, old, new) ==
  LET p == PathStart(url)
      path == Sub(url, p, Len(url))
  IN Sub(url, 1, p - 1) \o Sub(path, 1, m.from - 1)
       \o Replace(Sub(path, m.from, m.to), old, new)
       \o Sub(path, m.to + 1, Len(path))

\* url with the identifier that extractChapterIdentifier matched replaced
WithIdentifier(url, new) ==
  ReplacedIn(url, MatchOf(Sub(url, PathStart(url), Len(url)), 1),
             extractChapterIdentifier(url).identifier, new)

\* C12: for a URL of numeric identifier n, generatePrevUrl returns the URL
\* with the matched identifier replaced by n - 1 when n >= 2, and null when
\* n <= 1.  The code replaces the first occurrence of the digits anywhere in
\* the URL, so this is violated
C12_PrevIsIdentifierMinusOne ==
  ret.fn = "generatePrevUrl" =>
    LET id == extractChapterIdentifier(arg)
        n == parseInt(id.identifier)
    IN id.type = "numeric" =>
         IF n >= 2 THEN ret.value = WithIdentifier(arg, toString(n - 1))
         ELSE ret.value = Null

\* C13: for a URL of numeric identifier n, generateNextUrl returns the URL
\* with the matched identifier replaced by n + 1 and every other character,
\* scheme, host and earlier path segments included, as it was.  The code
\* replaces the first occurrence of the digits anywhere in the URL, so this
\* is violated
C13_NextChangesOnlyIdentifier ==
  ret.fn = "generateNextUrl" =>
    LET id == extractChapterIdentifier(arg)
        n == parseInt(id.identifier)
    IN id.type = "numeric" =>
         /\ ret.value = WithIdentifier(arg, toString(n + 1))
         /\ Sub(ret.value, 1, PathStart(arg) - 1) = Sub(arg, 1, PathStart(arg) - 1)


\* pathname + search of url
PathOf(url) == Sub(url, PathStart(url), Len(url))

\* the rules that read digits and an optional letter after chapter, after
\* ch, and before .html
TokenRules == <<"chapter-alphanumeric", "ch-alphanumeric", "html-alphanumeric">>

RuleNamed(name) == CHOOSE k \in 1..Len(patterns) : patterns[k].name = name

RECURSIVE TokenMatch(_, _)
\* the match of the chapter token of path: digits and at most one letter
\* after a chapter or ch keyword, or before .html
TokenMatch(path, k) ==
  IF k > Len(TokenRules) THEN NoMatch
  ELSE LET rule == patterns[RuleNamed(TokenRules[k])]
           m == RegexMatch(rule.regex, rule.ci, path)
       IN IF m.ok THEN m ELSE TokenMatch(path, k + 1)

ChapterToken(url) == TokenMatch(PathOf(url), 1).groups[1]

EndsWithLetter(token) ==
  token # <<>> /\ ~IsDigit(token[Len(token)])

\* no rule of extractChapterIdentifier matches the path
NoChapterMarkup(url) ==
  \A k \in 1..Len(patterns) :
    ~RegexMatch(patterns[k].regex, patterns[k].ci, PathOf(url)).ok

\* C14: extractChapterIdentifier returns a chapter token of digits and one
\* letter whole, with type alphanumeric; a token of digits only with type
\* numeric; and null, null for a path without keyword or digit pattern.  The
\* numeric rules are tried first and match the digits of chapter-1a and
\* ch-2b, so this is violated
C14_ExtractsWholeToken ==
  ret.fn = "extractChapterIdentifier" =>
    LET token == ChapterToken(arg)
    IN /\ EndsWithLetter(token) =>
            /\ ret.value.identifier = token
            /\ ret.value.type = "alphanumeric"
       /\ (token # <<>> /\ ~EndsWithLetter(token)) =>
            /\ ret.value.identifier = token
            /\ ret.value.type = "numeric"
       /\ NoChapterMarkup(arg) =>
            /\ ret.value.identifier = Null
            /\ ret.value.type = "null"


\* the chapter token of url advanced by one: the letter of a token of digits
\* and one letter, the number of a token of digits
NextToken(token) ==
  IF EndsWithLetter(token)
  THEN Sub(token, 1, Len(token) - 1) \o <<CharAfter(token[Len(token)])>>
  ELSE toString(parseInt(token) + 1)

\* C15: generateNextUrl returns the URL with the letter of a digits-and-letter
\* chapter identifier advanced by one and its digits kept (chapter-1a gives
\* chapter-1b), and the number of a digits-only identifier incremented.  The
\* identifier extracted from chapter-1a is the numeric 1 (C14), so this is
\* violated
C15_NextAdvancesLetter ==
  ret.fn = "generateNextUrl" =>
    LET token == ChapterToken(arg)
    IN token # <<>> =>
         ret.value = ReplacedIn(arg, TokenMatch(PathOf(arg), 1), token,
                                NextToken(token))


\* validateUrl(url) has a cached verdict
VerdictCached(url) ==
  /\ Has(cache, ValidKey(url))
  /\ ~Expired(EntryOf(cache, ValidKey(url)).timestamp,
              EntryOf(cache, ValidKey(url)).ttl, now)

\* call c has finished, the call before it was made with the same URL and
\* validated candidates, and the verdicts of that validation are cached
SecondOfTwo(c) ==
  /\ calls[c].pc = "done"
  /\ ret.fn = "predictNavigation"
  /\ ret.value.url = calls[c].url
  /\ ret.value.probes > 0
  /\ \A url \in {ret.value.nextUrl, ret.value.prevUrl} \ {Null} :
       VerdictCached(url)

SameLinks(c) ==
  /\ calls[c].result.nextUrl = ret.value.result.nextUrl
  /\ calls[c].result.previousUrl = ret.value.result.previousUrl

Verdict(call, side) ==
  IF side = "next" THEN call.nextValid ELSE call.prevValid

Candidate(call, side) ==
  IF side = "next" THEN call.nextUrl ELSE call.prevUrl

LegOf(call, side) ==
  IF side = "next" THEN call.nextState ELSE call.prevState

\* C17: validateUrl returns true only on a cached verdict valid, on a HEAD
\* answer 2xx, 403 or 405, or, the HEAD request rejected, on a GET answer
\* 2xx; on any other status, on both requests rejected and on a cached
\* verdict invalid it returns false
C17_ValidOnlyOnKnownAnswer ==
  [][\A c \in Calls, side \in {"next", "prev"} :
       /\ \A head \in HeadOutcomes, get \in GetOutcomes :
            ValidateFetch(c, side, head, get) =>
              (Verdict(calls[c], side)' <=>
                 \/ head \in {"2xx", "403", "405"}
                 \/ head = "error" /\ get \in {"2xx", "late2xx"})
       /\ ValidateLookup(c, side) =>
            (Verdict(calls[c], side)' <=>
               /\ VerdictCached(Candidate(calls[c], side))
               /\ EntryOf(cache, ValidKey(Candidate(calls[c], side))).data = "valid")]_vars

\* both candidates of a call were answered from cached verdicts, one valid
\* and one invalid
C17_Witness ==
  \E c \in Calls :
    /\ calls[c].pc = "validate" /\ calls[c].tier = 1
    /\ calls[c].nextState = "done" /\ calls[c].prevState = "done"
    /\ calls[c].nextValid /\ ~calls[c].prevValid
    /\ VerdictCached(calls[c].nextUrl) /\ VerdictCached(calls[c].prevUrl)
    /\ EntryOf(cache, ValidKey(calls[c].prevUrl)).data = "invalid"


\* the age of the verdict stored for url, probed or not
VerdictAge(url) == now - EntryOf(cache, ValidKey(url)).timestamp

\* C18: a validateUrl call finding a verdict stored at most 1 hour ago
\* returns it without a probe, and a call finding a verdict stored more than
\* 1 hour ago probes again.  Every cache entry is stored with the 24 hour
\* lifetime, so the second part is violated
C18_VerdictReusedForOneHour ==
  [][\A c \in Calls, side \in {"next", "prev"} :
       (ValidateLookup(c, side) /\ Has(cache, ValidKey(Candidate(calls[c], side)))) =>
         IF VerdictAge(Candidate(calls[c], side)) <= HOUR
         THEN LegOf(calls[c], side)' = "done"
         ELSE LegOf(calls[c], side)' = "fetch"]_vars


\* the template holds the placeholder of a chapter identifier
HasPlaceholder(template) ==
  \/ FirstOccurrence(template, <<"{", "n", "u", "m", "b", "e", "r", "}">>) > 0
  \/ FirstOccurrence(template, <<"{", "i", "d", "}">>) > 0

\* C19: a call runs tier 1 only with a stored pattern whose template holds
\* the placeholder; a stored pattern without it is passed over, whatever its
\* confidence.  The code never reads the template, so this is violated
C19_MalformedPatternNotUsed ==
  \A c \in Calls :
    calls[c].tier = 1 => HasPlaceholder(calls[c].domainPattern.pattern)


\* C20: a POST below the rate limit whose body is a JSON object with a
\* well-formed url is not answered with an error status: the handler goes on
\* to predictNavigation with that url.  validateRequest has no branch for
\* the type nextChapter and returns a sanitized object without url, so the
\* handler answers 400 and this is violated
C20_PostReachesPrediction ==
  (/\ ret.fn = "POST"
   /\ arg.belowLimit /\ arg.json = "object"
   /\ arg.url # Null /\ arg.sourceUrlValid) =>
     /\ ret.value.status \notin {400, 429, 500}
     /\ ret.value = Predicting(arg.url)


\* the calls of client ip that succeeded in the 60 seconds from time t on
SucceededWithin(ip, t) ==
  {k \in 1..Len(log) :
     log[k].ip = ip /\ t <= log[k].t /\ log[k].t < t + perMinute.windowMs}

\* C21: of the calls of one client to checkRateLimit, at most 10 succeed
\* within any interval of 60 seconds.  The limiter counts per window that
\* starts at the first request and forgets the count when the window ends,
\* so 10 calls at the end of one window and 10 at the start of the next all
\* succeed and this is violated
C21_AtMostTenPerMinute ==
  \A ip \in Clients : \A k \in 1..Len(log) :
    Cardinality(SucceededWithin(ip, log[k].t)) <= perMinute.maxRequests


\* the invocations of fn and the waits of the call, in order
Invocations == SelectSeq(log, LAMBDA e : e.ev = "fn")

Waits == SelectSeq(log, LAMBDA e : e.ev = "sleep")

\* the wait before retry k: the initial delay, then the delay before it
\* doubled and capped at maxDelay
RECURSIVE BackoffDelay(_, _)
BackoffDelay(opts, k) ==
  IF k = 1 THEN opts.initialDelay
  ELSE Min(2 * BackoffDelay(opts, k - 1), opts.maxDelay)

RetryReturned == retry.pc = "done" /\ ret.fn = "retryWithBackoff"

C22_Safety ==
  retry.pc # "idle" =>
    /\ Len(Invocations) <= retry.opts.maxRetries + 1
    /\ Len(Waits) = Len(Invocations) - (IF retry.pc = "sleep" THEN 0 ELSE 1)
    /\ \A k \in 1..Len(Waits) : Waits[k].n = BackoffDelay(retry.opts, k)
    /\ retry.opts = DEFAULT_OPTIONS =>
         \A k \in 1..Len(Waits) : Waits[k].n = <<1000, 2000, 4000, 8000>>[k]
    /\ RetryReturned /\ ret.value.success =>
         /\ ret.value.attempts = Len(Invocations)
         /\ ret.value.data = "data"
    /\ RetryReturned /\ ~ret.value.success =>
         /\ ret.value.attempts = retry.opts.maxRetries + 1
         /\ Len(Invocations) = retry.opts.maxRetries + 1
         /\ ret.value.error = Len(Invocations)

\* C22: retryWithBackoff terminates; it invokes fn at most maxRetries + 1
\* times (5 by default) and waits the initial delay, doubled each time and
\* capped at maxDelay, before the successive retries (1 s, 2 s, 4 s, 8 s by
\* default); at the first invocation that succeeds it returns success with
\* attempts = the number of invocations, and when every invocation fails it
\* returns failure with attempts = maxRetries + 1 and the last error
C22_RetryTerminates ==
  /\ []C22_Safety
  /\ (retry.pc # "idle") ~> RetryReturned

\* every invocation failed under the default options: five invocations,
\* four waits
C22_Witness ==
  /\ RetryReturned /\ ~ret.value.success
  /\ retry.opts = DEFAULT_OPTIONS
  /\ Len(Invocations) = 5 /\ Len(Waits) = 4 /\ Waits[4].n = 8000


\* C23: a request that executeWithRetry queued because the client was
\* offline is not executed while the client is offline.  enqueue starts
\* processQueue at once when no loop is running, and processQueue never
\* reads navigator.onLine, so the request's fn is invoked in the same task,
\* offline, and this is violated
C23_QueuedNotRunOffline ==
  \A k \in 1..Len(log) : ("id" \in DOMAIN log[k]) => log[k].onLine


Accepted(id) ==
  id <= Len(requestQueue.promises) /\ requestQueue.promises[id] # "full"

SettledAs(id, outcomes) ==
  id <= Len(requestQueue.promises) /\ requestQueue.promises[id] \in outcomes

\* C30 as stated: every request accepted by enqueue is eventually resolved
\* with its function's value or rejected with its function's error.  A
\* request that waits in the queue for more than maxAge behind a slow one
\* is rejected with 'Request expired in queue' by the next enqueue, its
\* function never invoked, so this is violated
C30_EverySettledByItsFunction ==
  \A id \in 1..MaxRequests :
    Accepted(id) ~> SettledAs(id, {"resolved", "rejected"})

\* C30: every request accepted by enqueue eventually has its promise
\* settled: resolved with its function's value, rejected with its
\* function's error, or rejected as expired in the queue; and at most one
\* processQueue loop is active at any time
C30_EverySettledOneLoop ==
  /\ \A id \in 1..MaxRequests :
       Accepted(id) ~> SettledAs(id, {"resolved", "rejected", "expired"})
  /\ [](Len(requestQueue.loops) <= 1)
  /\ [](requestQueue.processing <=> Len(requestQueue.loops) = 1)

\* three requests were queued while the loop was busy with the first: one
\* expired, the others were run in turn, and the loop has returned
C30_Witness ==
  /\ requestQueue.promises = <<"resolved", "expired", "rejected">>
  /\ ~requestQueue.processing
  /\ Len(SelectSeq(log, LAMBDA e : "id" \in DOMAIN e)) = 2


\* C25: when the HEAD request of validateUrl fails by its timeout or by a
\* network error, the GET request is bounded by a timeout of 5 seconds of
\* its own and validateUrl returns true whenever the server answers the GET
\* with 2xx within that time, and not on an answer that comes later.  The
\* GET reuses the controller of the HEAD request after clearTimeout: after
\* a HEAD timeout the signal is already aborted and the GET is rejected at
\* once; after a network error no timer is left and a late answer counts.
\* So this is violated
C25_GetFallbackBounded ==
  [][\A c \in Calls, side \in {"next", "prev"} :
       \A head \in {"error", "timeout"}, get \in GetOutcomes :
         ValidateFetch(c, side, head, get) =>
           /\ get = "2xx" => Verdict(calls[c], side)'
           /\ get = "late2xx" => ~Verdict(calls[c], side)']_vars


\* the scraper has been invoked in call c
Scraping(call) == call.tier = 3

C24_OncePerCall ==
  \A c \in Calls :
    /\ calls[c].probes <= LegCount(calls[c].nextUrl) + LegCount(calls[c].prevUrl)
    /\ Scraping(calls[c]) =>
         /\ ~UsesStoredPattern(ExtractTable[calls[c].url], calls[c].domainPattern)
         /\ \/ calls[c].learnedPattern = NoPattern
            \/ /\ calls[c].nextState = "done" /\ calls[c].prevState = "done"
               /\ ~calls[c].nextValid /\ ~calls[c].prevValid

C24_NotAgain ==
  \A c \in Calls :
    /\ (Scraping(calls[c]) /\ calls[c].pc # "scrape") => calls'[c].pc # "scrape"
    /\ \A side \in {"next", "prev"} :
         (LegOf(calls[c], side) \in {"fetch", "done"} /\ calls'[c].pc # "idle") =>
           LegOf(calls[c], side)' # "start"

\* C24: within one predictNavigation call each generated candidate is
\* validated at most once, the scraper is invoked at most once, and the
\* scraper is invoked only when tier 1 did not apply and tier 2 either
\* learned no pattern or had neither candidate validate
C24_NoStepRepeated == []C24_OncePerCall /\ [][C24_NotAgain]_vars

\* a call that learned a pattern, had both candidates fail validation and
\* then scraped
C24_Witness ==
  \E c \in Calls :
    /\ calls[c].pc = "done" /\ calls[c].result.method = "scraping"
    /\ calls[c].learnedPattern # NoPattern
    /\ calls[c].probes = 2
    /\ calls[c].outcome = "content"


\* C26: predictNavigation starts the validation of both candidates in one
\* step and goes on (to the store, the scraper or the return) only when
\* both have resolved, in whichever order they resolve and whatever they
\* answer
C26_WaitsForBothProbes ==
  [][\A c \in Calls :
       /\ (calls[c].pc # "validate" /\ calls'[c].pc = "validate") =>
            \A side \in {"next", "prev"} :
              LegOf(calls[c], side)' = LegState(Candidate(calls[c], side)')
       /\ (calls[c].pc = "validate" /\ calls'[c].pc # "validate") =>
            \A side \in {"next", "prev"} : LegOf(calls[c], side) = "done"]_vars

\* the next candidate has validated, the previous one is still being
\* fetched, and the call has not gone on
C26_Witness ==
  \E c \in Calls :
    /\ calls[c].pc = "validate"
    /\ calls[c].nextState = "done" /\ calls[c].nextValid
    /\ calls[c].prevState = "fetch"


\* calls c1 and c2 have both completed tier 1 with a validated candidate,
\* having read the same stored record when they began
BothAdjusted(c1, c2) ==
  /\ c1 # c2
  /\ \A c \in {c1, c2} :
       /\ calls[c].pc = "done" /\ calls[c].tier = 1
       /\ calls[c].nextValid \/ calls[c].prevValid
  /\ calls[c1].domainPattern = calls[c2].domainPattern

\* C27: when two concurrent calls for one domain both take tier 1 on the
\* same stored record and both validate, the write of the one that
\* completes second leaves the stored successRate and confidence raised by
\* one adjustment of 0.05 over the record they read, not by two
C27_OneAdjustmentLost ==
  [][\A c1, c2 \in Calls :
       (calls[c2].pc = "save" /\ BothAdjusted(c1, c2)') =>
         LET read == calls[c2].domainPattern
             stored == StoredPattern(read.domain)'
         IN /\ stored # NoPattern
            /\ stored.successRate = Min(950, read.successRate + 50)
            /\ stored.confidence = Min(950, read.successRate + 50)]_vars

\* both calls read the record at 0.7 and the store holds 0.75
C27_Witness ==
  /\ BothAdjusted(1, 2)
  /\ calls[1].domainPattern.successRate = 700
  /\ StoredPattern(calls[1].domainPattern.domain).successRate = 750
  /\ StoredPattern(calls[1].domainPattern.domain).confidence = 750


\* call c is in tier 1 and both its candidates have failed validation
TierOneBothFailed(call) ==
  /\ call.tier = 1
  /\ call.nextState = "done" /\ call.prevState = "done"
  /\ ~call.nextValid /\ ~call.prevValid

SavedLearned(call) ==
  /\ call.pc = "done" /\ call.tier = 2
  /\ call.domainPattern = NoPattern
  /\ call.nextValid \/ call.prevValid

\* C29: when two calls for two distinct domains without stored patterns are
\* in flight together and each has a candidate validate, the pattern list
\* holds a pattern of both domains once both calls have completed
C29_BothDomainsStored ==
  (/\ SavedLearned(calls[1]) /\ SavedLearned(calls[2])
   /\ HostTable[calls[1].url] # HostTable[calls[2].url]) =>
     /\ StoredPattern(HostTable[calls[1].url]) # NoPattern
     /\ StoredPattern(HostTable[calls[2].url]) # NoPattern

====
